---- MODULE Spec2Model ----
(***************************************************************************)
(* Notification server: the connection registry / router ("Hub") and the   *)
(* part of the client life cycle that drives it.                           *)
(*                                                                         *)
(* The repository carries three implementations of the Hub:                *)
(*   "presence"  unnamed/part_001 lines 473-820  (lock, roster, broadcast  *)
(*               channel)                                                  *)
(*   "lock"      unnamed/part_001 lines 1033-1209 (lock only)              *)
(*   "evicting"  src/models.go lines 263-342 (no lock, evicts on a full    *)
(*               queue)                                                    *)
(* A build links exactly one of them; `variant` is fixed in Init and never *)
(* changes.                                                                *)
(*                                                                         *)
(* Hub.run handles one channel message at a time, and every router method  *)
(* of the locked variants runs under h.mu, so each handler is one action.  *)
(***************************************************************************)
EXTENDS Integers, Sequences, FiniteSets, TLC

\* ------------------------------------------------------------------ bounds
NumClients == 3        \* Client objects created over a run
NumTeams == 2
NumUsers == 2
NumMessages == 1       \* distinct routed payloads
SendChannelBuffer == 1 \* capacity of Client.send
UnregisterLimit == 2   \* unregister / removeClient requests accepted per Client
MaxTime == 3           \* clock ticks observed (the clock stops there)
MaxWire == 2           \* websocket messages recorded per connection
MaxSessions == 2       \* Clients that run their pumps
MaxWatched == 1        \* Clients that run their pumps against the clock

\* -------------------------------------------------------- program constants
\* AppConfig.Limits.MaxClientsPerTeam, configured to the smallest cap: two
\* connections then suffice to fill a team and to overrun it
MaxClientsPerTeam == 1

\* AppConfig.CircuitBreaker.Threshold
Threshold == 2

\* AppConfig.CircuitBreaker.Timeout, in clock ticks
Timeout == 2

\* AppConfig.WebSocket.PongWait, in clock ticks
PongWait == 2

Clients == 1..NumClients
Teams == 1..NumTeams
Users == 1..NumUsers
Messages == 1..NumMessages
Variants == {"presence", "lock", "evicting"}
LockedVariants == {"presence", "lock"}

\* teamID / userID of a Client that has not authenticated (Go zero value "")
NoID == 0

VARIABLES
    variant,      \* which Hub implementation is linked
    clients,      \* Hub.clients : team -> (user -> Client)
    onlineUsers,  \* Hub.onlineUsers : team -> set of users with a UserInfo
    send,         \* Client.send : buffered contents of the channel
    closed,       \* Client.send has been closed
    teamID,       \* Client.teamID
    userID,       \* Client.userID
    phase,        \* position of the connection handler for each Client
    unregs,       \* unregister / removeClient requests issued for each Client
    panicked,     \* the process died of a runtime panic
    last,         \* what the last router or diagnostic call returned
    mode,             \* AppConfig.Environment.Mode
    enableFakeAuth,   \* AppConfig.Environment.EnableFakeAuth
    failures,         \* backendCircuitBreaker.failures
    lastFailure,      \* backendCircuitBreaker.lastFailure
    now,              \* the clock read by time.Now / time.Since
    lastAuth,         \* the last handshake: its first frame, its token,
                      \* the provider's answer, what it did and returned
    email,            \* Client.email
    isAuthenticated,  \* Client.isAuthenticated
    reply,            \* the handshake frame written to each peer
    response,         \* what the last POST /send was answered and which
                      \* router call it made
    running,          \* the Hub method each goroutine is inside, with the
                      \* lock on h.mu it holds and how it touches the maps
    conn,             \* Client.conn: open, or closed by conn.Close()
    rp,               \* position of Client.readPump
    wp,               \* position of Client.writePump
    batch,            \* payloads written into writePump's current writer w
    wire,             \* websocket messages written to the connection, each
                      \* the payloads of one writer, oldest first
    deadline,         \* the connection's read deadline
    writer,           \* who wrote to the connection last
    ranging,          \* per Client, the `range clients` of the
                      \* broadcastOnlineUsersToTeam its readPump is in: the
                      \* entries still to come and the one just produced
    handoff,          \* per Client, whether Hub.run has received its
                      \* registration request from h.register
    cbMu,             \* CircuitBreaker.mu: the Client whose handler holds it
    cbpc              \* per Client, where its handler is in CircuitBreaker.Call

\* configuration, circuit breaker, clock and handshake replies: what the Hub
\* and the pumps never touch
authVars == <<mode, enableFakeAuth, failures, lastFailure, now, lastAuth, reply>>

\* what belongs to the REST handler: the Hub, the handshake and the pumps
\* never touch it
pumpVars == <<conn, rp, wp, batch, wire, deadline, writer>>

\* what the goroutines hold between two steps of one operation
raceVars == <<handoff, cbMu, cbpc, ranging>>

serverVars == <<response, running, pumpVars, raceVars>>

vars == <<variant, clients, onlineUsers, send, closed, teamID, userID,
          phase, unregs, panicked, last, authVars, email, isAuthenticated,
          serverVars>>

\* ------------------------------------------------------------- Go map ops
MapPut(f, k, v) == [x \in (DOMAIN f) \cup {k} |-> IF x = k THEN v ELSE f[x]]

MapDelete(f, k) == [x \in (DOMAIN f) \ {k} |-> f[x]]

EmptyMap == [x \in {} |-> 0]

\* ------------------------------------------------------------ registry views
HasTeam(t) == t \in DOMAIN clients

HasUser(t, u) == HasTeam(t) /\ u \in DOMAIN clients[t]

\* the Clients stored under any team, whatever t is
AnyTeamClients(t) == UNION {{clients[x][u] : u \in DOMAIN clients[x]} : x \in DOMAIN clients}

\* the Clients stored under team t
TeamClients(t) == IF HasTeam(t) THEN {clients[t][u] : u \in DOMAIN clients[t]} ELSE {}

AllClients == UNION {TeamClients(t) : t \in DOMAIN clients}

\* what an operation returned: a bool (ok), a count, and for the health
\* snapshot the number of team keys
Result(op, ok, count) == [op |-> op, ok |-> ok, count |-> count, teams |-> 0]

\* after a handler that returns nothing (Hub.run cases, the pumps)
NoResult == Result("none", FALSE, 0)

\* Client.email: unset, the address the identity provider returned for
\* account u, or the address fmt.Sprintf("fake_%s@example.com", u) builds
NoEmail == [src |-> "none", id |-> NoID]

ProviderEmail(u) == [src |-> "provider", id |-> u]

FakeEmail(u) == [src |-> "fake", id |-> u]

\* errors Client.authenticate returns (nil when it succeeds)
ErrNil == "nil"

ErrFakeToken == "invalid authentication token"

ErrInvalidJWT == "invalid JWT token provided"

ErrStatus == "authentication failed with status"

ErrTransport == "transport error"

ErrBody == "invalid response body"

ErrBreakerOpen == "circuit breaker open - backend unavailable"

\* the message of the auth_error frame sent when the team is full
ErrTeamLimit == "Team client limit reached"

AuthErrors == {ErrNil, ErrFakeToken, ErrInvalidJWT, ErrStatus, ErrTransport,
               ErrBody, ErrBreakerOpen}

\* no answer of the identity provider (it was not asked)
NoResponse == [kind |-> "none", id |-> NoID]

\* lastAuth before any handshake; with another frame, lastAuth when the
\* handshake did not get to Client.authenticate
NoAuth == [frame |-> "", token |-> "none", err |-> "none", invoked |-> FALSE,
           probe |-> FALSE, resp |-> NoResponse]

\* no handshake frame written yet
NoReply == [type |-> "none", message |-> "none"]

\* the router operations handleSendMessage can call
RouterOps == {"sendToUser", "broadcastToTeam", "broadcastToAllTeams"}

\* goroutines that call into the Hub: Hub.run, an HTTP handler, a readPump
Goroutines == {"run", "handler", "pump"}

\* a goroutine outside every Hub method
Idle == [name |-> "idle", lock |-> "none", access |-> "none"]

\* MessageRequest, as the body of POST /send decodes into it ("" is NoID)
MessageRequests ==
    [MessageType : {"", "notification"}, Broadcast : BOOLEAN,
     TargetTeamID : Teams \cup {NoID}, TargetUserID : Users \cup {NoID},
     Body : Messages]

\* no request decoded
NoRequest == [MessageType |-> "", Broadcast |-> FALSE, TargetTeamID |-> NoID,
              TargetUserID |-> NoID, Body |-> 0]

\* no router call
NoCall == [op |-> "none", team |-> NoID, user |-> NoID]

\* no POST /send answered yet, or the last one died in its router call
NoSendResponse == [status |-> 0, success |-> FALSE, delivered |-> 0,
                   call |-> NoCall, req |-> NoRequest]

\* a readPump that is not inside broadcastOnlineUsersToTeam
NotRanging == [todo |-> {}, cur |-> NoID]

TypeOK ==
    /\ variant \in Variants
    /\ DOMAIN clients \subseteq Teams
    /\ \A t \in DOMAIN clients :
          /\ DOMAIN clients[t] \subseteq Users
          /\ \A u \in DOMAIN clients[t] : clients[t][u] \in Clients
    /\ DOMAIN onlineUsers \subseteq Teams
    /\ \A t \in DOMAIN onlineUsers : onlineUsers[t] \subseteq Users
    /\ \A c \in Clients :
          /\ Len(send[c]) <= SendChannelBuffer
          /\ closed[c] \in BOOLEAN
          /\ teamID[c] \in Teams \cup {NoID}
          /\ userID[c] \in Users \cup {NoID}
          /\ phase[c] \in {"connecting", "verified", "authenticated", "active",
                          "closed"}
          /\ unregs[c] \in 0..UnregisterLimit
          /\ email[c].src \in {"none", "provider", "fake"}
          /\ email[c].id \in Users \cup {NoID}
          /\ isAuthenticated[c] \in BOOLEAN
          /\ reply[c].type \in {"none", "auth_error", "authSuccess"}
    /\ panicked \in BOOLEAN
    /\ mode \in {"development", "production"}
    /\ enableFakeAuth \in BOOLEAN
    /\ failures \in 0..Threshold
    /\ lastFailure \in 0..MaxTime
    /\ now \in 0..MaxTime
    /\ lastAuth.err \in AuthErrors \cup {"none"}
    /\ lastAuth.invoked \in BOOLEAN
    /\ lastAuth.probe \in BOOLEAN
    /\ lastAuth.frame \in {"", "auth", "other", "undecodable", "none"}
    /\ lastAuth.token \in {"none", "token", "fake_development_token"}
    /\ lastAuth.resp.kind \in {"none", "200", "badbody", "401", "500", "transport"}
    /\ lastAuth.resp.id \in Users \cup {NoID}
    /\ response.status \in {0, 200, 400}
    /\ response.success \in BOOLEAN
    /\ response.delivered \in 0..NumClients
    /\ response.call.op \in RouterOps \cup {"none"}
    /\ response.call.team \in Teams \cup {NoID}
    /\ response.call.user \in Users \cup {NoID}
    /\ response.req \in MessageRequests \cup {NoRequest}
    /\ \A g \in Goroutines :
          /\ running[g].lock \in {"none", "RLock", "Lock"}
          /\ running[g].access \in {"none", "read", "write"}
    /\ \A c \in Clients :
          /\ conn[c] \in {"open", "closed"}
          /\ rp[c] \in {"none", "reading", "ranging", "sending", "exiting", "done"}
          /\ wp[c] \in {"none", "selecting", "writing", "done"}
          /\ Len(batch[c]) <= 1
          /\ Len(wire[c]) <= MaxWire
          /\ deadline[c] \in 0..(MaxTime + PongWait)
          /\ writer[c] \in {"none", "handler", "writePump", "readPump"}
          /\ handoff[c] \in {"none", "received"}
          /\ ranging[c].todo \subseteq Clients
          /\ ranging[c].cur \in Clients \cup {NoID}
          /\ cbpc[c] \in {"idle", "waiting", "locked", "fn"}
    /\ cbMu \in Clients \cup {NoID}

Init ==
    /\ variant \in Variants
    /\ clients = EmptyMap
    /\ onlineUsers = EmptyMap
    /\ send = [c \in Clients |-> <<>>]
    /\ closed = [c \in Clients |-> FALSE]
    /\ teamID = [c \in Clients |-> NoID]
    /\ userID = [c \in Clients |-> NoID]
    /\ phase = [c \in Clients |-> "connecting"]
    /\ unregs = [c \in Clients |-> 0]
    /\ panicked = FALSE
    /\ last = Result("init", FALSE, 0)
    /\ mode = "production"
    /\ enableFakeAuth = FALSE
    /\ failures = 0
    /\ lastFailure = 0
    /\ now = 0
    /\ lastAuth = NoAuth
    /\ email = [c \in Clients |-> NoEmail]
    /\ isAuthenticated = [c \in Clients |-> FALSE]
    /\ reply = [c \in Clients |-> NoReply]
    /\ response = NoSendResponse
    /\ running = [g \in Goroutines |-> Idle]
    /\ conn = [c \in Clients |-> "open"]
    /\ rp = [c \in Clients |-> "none"]
    /\ wp = [c \in Clients |-> "none"]
    /\ batch = [c \in Clients |-> <<>>]
    /\ wire = [c \in Clients |-> <<>>]
    /\ deadline = [c \in Clients |-> 0]
    /\ writer = [c \in Clients |-> "none"]
    /\ handoff = [c \in Clients |-> "none"]
    /\ ranging = [c \in Clients |-> NotRanging]
    /\ cbMu = NoID
    /\ cbpc = [c \in Clients |-> "idle"]

\* ------------------------------------------------------------ channel ops
\* A select whose default branch is missing: a full queue blocks the sender
SelectCaseNoDefault(c) ==
    IF closed[c] THEN "panic"
    ELSE IF Len(send[c]) < SendChannelBuffer THEN "send"
    ELSE "blocked"

\* Which branch a `select { case c.send <- m: ... default: ... }` takes.  A
\* send on a closed channel is always ready and panics; the time.After case of
\* the locked variants is never ready at the instant of the select, so with a
\* default branch present it is never taken.
SelectCase(c) ==
    IF closed[c] THEN "panic"
    ELSE IF Len(send[c]) < SendChannelBuffer THEN "send"
    ELSE "default"

\* A caller gets past its selects only if none of them blocks
Ready(targets) == \A c \in targets : SelectCase(c) # "blocked"

\* Clients of `targets` the select enqueues onto
Accepting(targets) == {c \in targets : SelectCase(c) = "send"}

\* Clients of `targets` for which the select falls to its default branch
Rejecting(targets) == {c \in targets : SelectCase(c) = "default"}

\* Serialized payloads
Payload(m) == [type |-> "message", id |-> m]

UserJoinedMessage(u) == [type |-> "userJoined", id |-> u]

UserLeftMessage(u) == [type |-> "userLeft", id |-> u]

OnlineUsersMessage(t) == [type |-> "onlineUsers", id |-> t]

\* Channel contents after m was offered to every Client of `targets`
Offer(q, targets, m) ==
    [c \in Clients |-> IF c \in Accepting(targets) THEN Append(q[c], m) ELSE q[c]]

\* A step that dies of a runtime panic: nothing it did is observable afterwards
Panic(op) ==
    /\ panicked' = TRUE
    /\ last' = Result(op, FALSE, 0)
    /\ UNCHANGED <<variant, clients, onlineUsers, send, closed, teamID, userID,
                   phase, unregs>>

\* close(c.send) on each Client of `cs`
Close(cs) == [c \in Clients |-> closed[c] \/ c \in cs]

\* --------------------------------------------------------------- handshake
\* Team and user ids are opaque strings compared only for equality, and Client
\* objects are interchangeable: a handshake presents the next Client, and an id
\* not seen before is the least unused one.
Fresh(ids, x) == x = 1 \/ \E d \in Clients : ids[d] = x \/ ids[d] = x - 1

\* Client.authenticate, success path: identity is fixed on the Client
Authenticate(c, t, u) ==
    /\ ~panicked
    /\ UNCHANGED serverVars
    /\ phase[c] = "connecting"
    /\ \A d \in Clients : d < c => phase[d] # "connecting"
    /\ Fresh(teamID, t)
    /\ Fresh(userID, u)
    /\ teamID' = [teamID EXCEPT ![c] = t]
    /\ userID' = [userID EXCEPT ![c] = u]
    /\ phase' = [phase EXCEPT ![c] = "authenticated"]
    /\ email' = [email EXCEPT ![c] = ProviderEmail(u)]
    /\ isAuthenticated' = [isAuthenticated EXCEPT ![c] = TRUE]
    /\ last' = NoResult
    /\ UNCHANGED <<variant, clients, onlineUsers, send, closed, unregs, panicked,
                   authVars>>

\* clients after h.clients[team][user] = client (team map created on demand)
Insert(c) ==
    LET t == teamID[c]
        old == IF HasTeam(t) THEN clients[t] ELSE EmptyMap
    IN  MapPut(clients, t, MapPut(old, userID[c], c))

\* Hub.run, register case, lock variant and evicting variant
Register(c) ==
    /\ ~panicked
    /\ UNCHANGED serverVars
    /\ UNCHANGED <<authVars, email, isAuthenticated>>
    /\ variant \in {"lock", "evicting"}
    /\ phase[c] = "authenticated"
    /\ clients' = Insert(c)
    /\ phase' = [phase EXCEPT ![c] = "active"]
    /\ last' = NoResult
    /\ UNCHANGED <<variant, onlineUsers, send, closed, teamID, userID, unregs, panicked>>

\* Hub.broadcastUserJoined: every Client of the team except the key of the
\* one that joined
UserJoinedTargets(cl, c) ==
    {cl[teamID[c]][u] : u \in (DOMAIN cl[teamID[c]]) \ {userID[c]}}

\* Hub.run, register case, presence variant: insert, record the roster entry,
\* then (lock released) notify the team and send the roster to the new Client
RegisterPresence(c) ==
    /\ ~panicked
    /\ UNCHANGED serverVars
    /\ UNCHANGED <<authVars, email, isAuthenticated>>
    /\ variant = "presence"
    /\ phase[c] = "authenticated"
    /\ LET t == teamID[c]
           cl == Insert(c)
           roster == IF t \in DOMAIN onlineUsers THEN onlineUsers[t] ELSE {}
           joined == UserJoinedTargets(cl, c)
       IN  IF \E d \in joined \cup {c} : SelectCase(d) = "panic"
           THEN Panic("register")
           ELSE /\ clients' = cl
                /\ onlineUsers' = MapPut(onlineUsers, t, roster \cup {userID[c]})
                /\ send' = Offer(Offer(send, joined, UserJoinedMessage(userID[c])),
                                 {c}, OnlineUsersMessage(t))
                /\ phase' = [phase EXCEPT ![c] = "active"]
                /\ last' = NoResult
                /\ UNCHANGED <<variant, closed, teamID, userID, unregs, panicked>>

\* clients after delete(h.clients[t], u) for every u of us; the team key stays
DeleteUsers(cl, t, us) ==
    IF t \in DOMAIN cl
    THEN [cl EXCEPT ![t] = [x \in (DOMAIN cl[t]) \ us |-> cl[t][x]]]
    ELSE cl

\* clients after `if len(h.clients[t]) == 0 { delete(h.clients, t) }`
CleanupTeam(cl, t) ==
    IF t \in DOMAIN cl /\ DOMAIN cl[t] = {} THEN MapDelete(cl, t) ELSE cl

\* Whether the unregister / removeClient body runs: the KEY of the Client is
\* present (the stored Client is not compared with the one being removed)
KeyPresent(c) == HasUser(teamID[c], userID[c])

\* Hub.run, unregister case, lock variant (part_001 1065-1079) and evicting
\* variant (models.go 291-303): same statements
HandleUnregister(c) ==
    /\ ~panicked
    /\ UNCHANGED serverVars
    /\ UNCHANGED <<authVars, email, isAuthenticated>>
    /\ variant \in {"lock", "evicting"}
    /\ phase[c] = "active"
    /\ IF KeyPresent(c) /\ closed[c]
       THEN Panic("unregister")
       ELSE /\ unregs' = [unregs EXCEPT ![c] = @ + 1]
            /\ last' = NoResult
            /\ IF KeyPresent(c)
               THEN /\ clients' = CleanupTeam(
                           DeleteUsers(clients, teamID[c], {userID[c]}), teamID[c])
                    /\ closed' = Close({c})
               ELSE UNCHANGED <<clients, closed>>
            /\ UNCHANGED <<variant, onlineUsers, send, teamID, userID, phase, panicked>>

\* Hub.run, unregister case, presence variant: also drops the roster entry and
\* (lock released) tells the remaining members of the team
HandleUnregisterPresence(c) ==
    /\ ~panicked
    /\ UNCHANGED serverVars
    /\ UNCHANGED <<authVars, email, isAuthenticated>>
    /\ variant = "presence"
    /\ phase[c] = "active"
    /\ LET t == teamID[c]
           u == userID[c]
           cl == CleanupTeam(DeleteUsers(clients, t, {u}), t)
           left == IF t \in DOMAIN cl THEN {cl[t][x] : x \in DOMAIN cl[t]} ELSE {}
           roster == IF t \in DOMAIN onlineUsers
                     THEN [onlineUsers EXCEPT ![t] = @ \ {u}]
                     ELSE onlineUsers
       IN  IF KeyPresent(c) /\ (closed[c] \/ \E d \in left : SelectCase(d) = "panic")
           THEN Panic("unregister")
           ELSE /\ unregs' = [unregs EXCEPT ![c] = @ + 1]
                /\ last' = NoResult
                /\ IF KeyPresent(c)
                   THEN /\ clients' = cl
                        /\ closed' = Close({c})
                        /\ onlineUsers' = IF t \in DOMAIN cl THEN roster
                                          ELSE MapDelete(roster, t)
                        /\ send' = Offer(send, left, UserLeftMessage(u))
                   ELSE UNCHANGED <<clients, closed, onlineUsers, send>>
                /\ UNCHANGED <<variant, teamID, userID, phase, panicked>>

\* Client.readPump's deferred `c.hub.unregister <- c`, handled by Hub.run: one
\* request per Client
Unregister(c) == unregs[c] = 0 /\ HandleUnregister(c)

UnregisterPresence(c) == unregs[c] = 0 /\ HandleUnregisterPresence(c)

\* A further unregister request for the same Client, as a caller of the Hub
\* may send it on the channel
UnregisterAgain(c) ==
    unregs[c] \in 1..(UnregisterLimit - 1) /\ HandleUnregister(c)

UnregisterAgainPresence(c) ==
    unregs[c] \in 1..(UnregisterLimit - 1) /\ HandleUnregisterPresence(c)

\* Hub.removeClient (locked variants): the unregister body without the roster
RemoveClient(c) ==
    /\ ~panicked
    /\ UNCHANGED serverVars
    /\ UNCHANGED <<authVars, email, isAuthenticated>>
    /\ variant \in LockedVariants
    /\ phase[c] = "active"
    /\ unregs[c] < UnregisterLimit
    /\ IF KeyPresent(c) /\ closed[c]
       THEN Panic("removeClient")
       ELSE /\ unregs' = [unregs EXCEPT ![c] = @ + 1]
            /\ last' = NoResult
            /\ IF KeyPresent(c)
               THEN /\ clients' = CleanupTeam(
                           DeleteUsers(clients, teamID[c], {userID[c]}), teamID[c])
                    /\ closed' = Close({c})
               ELSE UNCHANGED <<clients, closed>>
            /\ UNCHANGED <<variant, onlineUsers, send, teamID, userID, phase, panicked>>


\* ------------------------------------------------------------------ routing
\* A lookup by team only: every Client of the team is a target
SendToUserTeam(t, u) ==
    IF HasTeam(t) THEN {clients[t][x] : x \in DOMAIN clients[t]} ELSE {}

\* The Client sendToUser looks up: h.clients[teamID][userID], if both keys exist
SendToUserTarget(t, u) == IF HasUser(t, u) THEN {clients[t][u]} ELSE {}

\* Hub.sendToUser, locked variants: one non-blocking offer, nothing else changes
SendToUser(t, u, m) ==
    /\ ~panicked
    /\ UNCHANGED serverVars
    /\ UNCHANGED <<authVars, email, isAuthenticated>>
    /\ variant \in LockedVariants
    /\ LET tg == SendToUserTarget(t, u)
       IN  /\ Ready(tg)
           /\ IF \E c \in tg : SelectCase(c) = "panic"
              THEN Panic("sendToUser")
              ELSE /\ send' = Offer(send, tg, Payload(m))
                   /\ last' = Result("sendToUser", Accepting(tg) # {},
                                     Cardinality(Accepting(tg)))
                   /\ UNCHANGED <<variant, clients, onlineUsers, closed, teamID, userID,
                                  phase, unregs, panicked>>

\* Hub.sendToUser, evicting variant: a full queue is closed and its key deleted
\* from the team map (the team key itself stays)
SendToUserEvicting(t, u, m) ==
    /\ ~panicked
    /\ UNCHANGED serverVars
    /\ UNCHANGED <<authVars, email, isAuthenticated>>
    /\ variant = "evicting"
    /\ LET tg == SendToUserTarget(t, u)
       IN  /\ Ready(tg)
           /\ IF \E c \in tg : SelectCase(c) = "panic"
              THEN Panic("sendToUser")
              ELSE /\ send' = Offer(send, tg, Payload(m))
                   /\ closed' = Close(Rejecting(tg))
                   /\ clients' = IF Rejecting(tg) # {}
                                 THEN DeleteUsers(clients, t, {u})
                                 ELSE clients
                   /\ last' = Result("sendToUser", Accepting(tg) # {},
                                     Cardinality(Accepting(tg)))
                   /\ UNCHANGED <<variant, onlineUsers, teamID, userID, phase, unregs,
                                  panicked>>

\* Hub.broadcastToTeam, locked variants: offer to every member, count successes
BroadcastToTeam(t, m) ==
    /\ ~panicked
    /\ UNCHANGED serverVars
    /\ UNCHANGED <<authVars, email, isAuthenticated>>
    /\ variant \in LockedVariants
    /\ LET tg == TeamClients(t)
       IN  /\ Ready(tg)
           /\ IF \E c \in tg : SelectCase(c) = "panic"
              THEN Panic("broadcastToTeam")
              ELSE /\ send' = Offer(send, tg, Payload(m))
                   /\ last' = Result("broadcastToTeam", FALSE, Cardinality(Accepting(tg)))
                   /\ UNCHANGED <<variant, clients, onlineUsers, closed, teamID, userID,
                                  phase, unregs, panicked>>

\* Hub.broadcastToTeam, evicting variant: members with a full queue are closed
\* and deleted while the map is iterated
BroadcastToTeamEvicting(t, m) ==
    /\ ~panicked
    /\ UNCHANGED serverVars
    /\ UNCHANGED <<authVars, email, isAuthenticated>>
    /\ variant = "evicting"
    /\ LET tg == TeamClients(t)
           full == {u \in Users : HasUser(t, u) /\ clients[t][u] \in Rejecting(tg)}
       IN  /\ Ready(tg)
           /\ IF \E c \in tg : SelectCase(c) = "panic"
              THEN Panic("broadcastToTeam")
              ELSE /\ send' = Offer(send, tg, Payload(m))
                   /\ closed' = Close(Rejecting(tg))
                   /\ clients' = DeleteUsers(clients, t, full)
                   /\ last' = Result("broadcastToTeam", FALSE, Cardinality(Accepting(tg)))
                   /\ UNCHANGED <<variant, onlineUsers, teamID, userID, phase, unregs,
                                  panicked>>

\* Hub.broadcastToAllTeams (locked variants)
BroadcastToAllTeams(m) ==
    /\ ~panicked
    /\ UNCHANGED serverVars
    /\ UNCHANGED <<authVars, email, isAuthenticated>>
    /\ variant \in LockedVariants
    /\ LET tg == AllClients
       IN  /\ Ready(tg)
           /\ IF \E c \in tg : SelectCase(c) = "panic"
              THEN Panic("broadcastToAllTeams")
              ELSE /\ send' = Offer(send, tg, Payload(m))
                   /\ last' = Result("broadcastToAllTeams", FALSE,
                                     Cardinality(Accepting(tg)))
                   /\ UNCHANGED <<variant, clients, onlineUsers, closed, teamID, userID,
                                  phase, unregs, panicked>>

\* clients after the broadcast case of Hub.run deleted, in every team, the key
\* client.userID of each member whose queue was full; team keys stay
EvictFull(cl, full) ==
    [t \in DOMAIN cl |->
        [x \in (DOMAIN cl[t]) \ {userID[c] : c \in {d \in full : d \in TeamClients(t)}}
            |-> cl[t][x]]]

\* Hub.run, broadcast case (presence variant): offers to every registered
\* Client; one with a full queue is closed and deleted from clients and roster
HubBroadcast(m) ==
    /\ ~panicked
    /\ UNCHANGED serverVars
    /\ UNCHANGED <<authVars, email, isAuthenticated>>
    /\ variant = "presence"
    /\ LET tg == AllClients
           full == Rejecting(tg)
       IN  /\ Ready(tg)
           /\ IF \E c \in tg : SelectCase(c) = "panic"
              THEN Panic("broadcast")
              ELSE /\ send' = Offer(send, tg, Payload(m))
                   /\ closed' = Close(full)
                   /\ clients' = EvictFull(clients, full)
                   /\ onlineUsers' =
                        [t \in DOMAIN onlineUsers |->
                           onlineUsers[t] \ {userID[c] : c \in {d \in full : d \in TeamClients(t)}}]
                   /\ last' = NoResult
                   /\ UNCHANGED <<variant, teamID, userID, phase, unregs, panicked>>

\* ------------------------------------------------------------- diagnostics
\* an admission test that still admits a team standing at its cap
canAddClientInclusive(t) ==
    IF HasTeam(t) THEN Cardinality(DOMAIN clients[t]) <= MaxClientsPerTeam ELSE TRUE

\* Hub.canAddClient
canAddClient(t) ==
    IF HasTeam(t) THEN Cardinality(DOMAIN clients[t]) < MaxClientsPerTeam ELSE TRUE

RECURSIVE SumLen(_, _)
\* total += len(teamClients) over the team keys ts of cl
SumLen(cl, ts) ==
    IF ts = {} THEN 0
    ELSE LET t == CHOOSE x \in ts : TRUE
         IN  Cardinality(DOMAIN cl[t]) + SumLen(cl, ts \ {t})

\* Hub.getTotalClientCount
getTotalClientCount == SumLen(clients, DOMAIN clients)

\* Hub.healthCheck
healthCheck ==
    [total_teams |-> Cardinality(DOMAIN clients),
     total_clients |-> SumLen(clients, DOMAIN clients)]

CallCanAddClient(t) ==
    /\ ~panicked
    /\ UNCHANGED serverVars
    /\ UNCHANGED <<authVars, email, isAuthenticated>>
    /\ variant \in LockedVariants
    /\ last' = Result("canAddClient", canAddClient(t), 0)
    /\ UNCHANGED <<variant, clients, onlineUsers, send, closed, teamID, userID,
                   phase, unregs, panicked>>

CallGetTotalClientCount ==
    /\ ~panicked
    /\ UNCHANGED serverVars
    /\ UNCHANGED <<authVars, email, isAuthenticated>>
    /\ variant \in LockedVariants
    /\ last' = Result("getTotalClientCount", FALSE, getTotalClientCount)
    /\ UNCHANGED <<variant, clients, onlineUsers, send, closed, teamID, userID,
                   phase, unregs, panicked>>

CallHealthCheck ==
    /\ ~panicked
    /\ UNCHANGED serverVars
    /\ UNCHANGED <<authVars, email, isAuthenticated>>
    /\ variant \in LockedVariants
    /\ last' = [Result("healthCheck", FALSE, healthCheck.total_clients)
                  EXCEPT !.teams = healthCheck.total_teams]
    /\ UNCHANGED <<variant, clients, onlineUsers, send, closed, teamID, userID,
                   phase, unregs, panicked>>

\* ---------------------------------------------------------------- outbound
\* Client.writePump, message case: takes the head of the queue and then the
\* len(c.send) payloads behind it into one websocket write
WritePump(c) ==
    /\ ~panicked
    /\ UNCHANGED serverVars
    /\ UNCHANGED <<authVars, email, isAuthenticated>>
    /\ phase[c] = "active"
    /\ send[c] # <<>>
    /\ send' = [send EXCEPT ![c] = <<>>]
    /\ last' = NoResult
    /\ UNCHANGED <<variant, clients, onlineUsers, closed, teamID, userID,
                   phase, unregs, panicked>>

\* ------------------------------------------------- configuration helpers
IsDevelopment == mode = "development"

\* a bypass that ignores the mode
IsFakeAuthEnabledAnyMode == enableFakeAuth

IsFakeAuthEnabled == enableFakeAuth /\ IsDevelopment

\* ---------------------------------------------------------- circuit breaker
\* a circuit that opens only above the threshold
IsOpenAboveThreshold == failures > Threshold /\ now - lastFailure < Timeout

\* the circuit is open: the threshold is reached and the cool-down is running
IsOpen == failures >= Threshold /\ now - lastFailure < Timeout

\* a Call that never probes: once the threshold is reached it stays open
CallStaysOpen(err) ==
    IF failures >= Threshold
    THEN [err |-> ErrBreakerOpen, invoked |-> FALSE, probe |-> FALSE,
          failures |-> failures, lastFailure |-> lastFailure]
    ELSE IF err # ErrNil
         THEN [err |-> err, invoked |-> TRUE, probe |-> FALSE,
               failures |-> failures + 1, lastFailure |-> now]
         ELSE [err |-> ErrNil, invoked |-> TRUE, probe |-> FALSE,
               failures |-> 0, lastFailure |-> lastFailure]

\* a Call whose success path leaves the failure count alone
CallKeepsCount(err) ==
    IF IsOpen
    THEN [err |-> ErrBreakerOpen, invoked |-> FALSE, probe |-> FALSE,
          failures |-> failures, lastFailure |-> lastFailure]
    ELSE LET reset == IF failures >= Threshold THEN 0 ELSE failures
         IN  IF err # ErrNil
             THEN [err |-> err, invoked |-> TRUE, probe |-> failures >= Threshold,
                   failures |-> reset + 1, lastFailure |-> now]
             ELSE [err |-> ErrNil, invoked |-> TRUE, probe |-> failures >= Threshold,
                   failures |-> failures, lastFailure |-> lastFailure]

\* CircuitBreaker.Call(fn), where err is what fn returns if it is invoked: the
\* error Call returns, whether fn was invoked, whether the call was the probe
\* after a cool-down (the `cb.failures = 0` reset ran), and the breaker's
\* fields after the call
Call(err) ==
    IF IsOpen
    THEN [err |-> ErrBreakerOpen, invoked |-> FALSE, probe |-> FALSE,
          failures |-> failures, lastFailure |-> lastFailure]
    ELSE LET reset == IF failures >= Threshold THEN 0 ELSE failures
         IN  IF err # ErrNil
             THEN [err |-> err, invoked |-> TRUE, probe |-> failures >= Threshold,
                   failures |-> reset + 1, lastFailure |-> now]
             ELSE [err |-> ErrNil, invoked |-> TRUE, probe |-> failures >= Threshold,
                   failures |-> 0, lastFailure |-> lastFailure]

\* -------------------------------------------------------- authentication
FakeToken == "fake_development_token"

Tokens == {FakeToken, "token"}

\* What the identity provider does with GET /rest-auth/user/: 200 with the
\* account {id, email}, 200 with a body that does not parse, 401, another
\* status, or no response at all
Responses ==
    {[kind |-> "200", id |-> u] : u \in Users}
      \cup {[kind |-> k, id |-> NoID] : k \in {"badbody", "401", "500", "transport"}}

\* the error the closure passed to the breaker returns for a response
BackendError(resp) ==
    CASE resp.kind = "200" -> ErrNil
      [] resp.kind = "badbody" -> ErrBody
      [] resp.kind = "401" -> ErrInvalidJWT
      [] resp.kind = "transport" -> ErrTransport
      [] OTHER -> ErrStatus

\* kinds of first inbound frame: a handshake of type "auth", a decodable frame
\* of another type, bytes that do not decode, or a read error (the deadline
\* passed, the peer went away)
Frames == {"auth", "other", "undecodable", "none"}

\* AuthMessage, as the first frame decodes into it
AuthMessages ==
    [kind : {"auth"}, Token : Tokens, TeamID : Teams, UserID : Users]

\* every first frame a peer can send
FirstFrames ==
    AuthMessages \cup
      [kind : Frames \ {"auth"}, Token : {""}, TeamID : {NoID}, UserID : {NoID}]

\* a first frame that was read, decoded, and is not of type "auth" either
IsHandshakeAnyType(authMsg) == authMsg.kind \in {"auth", "other"}

\* handleWebSocket's three checks on the first frame: it was read, it decodes
\* into an AuthMessage, and its Type is "auth"
IsHandshake(authMsg) == authMsg.kind = "auth"

\* an authenticate that adopts the user id claimed in the handshake
authenticateClaimed(authMsg, resp) ==
    IF IsFakeAuthEnabled /\ authMsg.Token = FakeToken
    THEN [err |-> ErrNil, invoked |-> FALSE, probe |-> FALSE,
          failures |-> failures, lastFailure |-> lastFailure,
          teamID |-> authMsg.TeamID, userID |-> authMsg.UserID,
          email |-> FakeEmail(authMsg.UserID)]
    ELSE IF authMsg.Token = FakeToken
    THEN [err |-> ErrFakeToken, invoked |-> FALSE, probe |-> FALSE,
          failures |-> failures, lastFailure |-> lastFailure,
          teamID |-> NoID, userID |-> NoID, email |-> NoEmail]
    ELSE LET r == Call(BackendError(resp))
         IN  [err |-> r.err, invoked |-> r.invoked, probe |-> r.probe,
              failures |-> r.failures, lastFailure |-> r.lastFailure,
              teamID |-> IF r.err = ErrNil THEN authMsg.TeamID ELSE NoID,
              userID |-> IF r.err = ErrNil THEN authMsg.UserID ELSE NoID,
              email |-> IF r.err = ErrNil THEN ProviderEmail(resp.id) ELSE NoEmail]

\* Client.authenticate(authMsg) when the provider would answer resp: the error
\* returned, whether the provider was called, the breaker's fields and the
\* identity written on the Client (NoID / NoEmail when nothing is written)
authenticate(authMsg, resp) ==
    IF IsFakeAuthEnabled /\ authMsg.Token = FakeToken
    THEN [err |-> ErrNil, invoked |-> FALSE, probe |-> FALSE,
          failures |-> failures, lastFailure |-> lastFailure,
          teamID |-> authMsg.TeamID, userID |-> authMsg.UserID,
          email |-> FakeEmail(authMsg.UserID)]
    ELSE IF authMsg.Token = FakeToken
    THEN [err |-> ErrFakeToken, invoked |-> FALSE, probe |-> FALSE,
          failures |-> failures, lastFailure |-> lastFailure,
          teamID |-> NoID, userID |-> NoID, email |-> NoEmail]
    ELSE LET r == Call(BackendError(resp))
         IN  [err |-> r.err, invoked |-> r.invoked, probe |-> r.probe,
              failures |-> r.failures, lastFailure |-> r.lastFailure,
              teamID |-> IF r.err = ErrNil THEN authMsg.TeamID ELSE NoID,
              userID |-> IF r.err = ErrNil THEN resp.id ELSE NoID,
              email |-> IF r.err = ErrNil THEN ProviderEmail(resp.id) ELSE NoEmail]

\* a handler that goes on to the team limit whatever the first frame was and
\* whatever authenticate returned
HandleWebSocketUnchecked(c, authMsg, resp) ==
    /\ ~panicked
    /\ UNCHANGED serverVars
    /\ variant \in LockedVariants
    /\ phase[c] = "connecting"
    /\ \A d \in Clients : d < c => phase[d] # "connecting"
    /\ phase' = [phase EXCEPT ![c] = "verified"]
    /\ last' = NoResult
    /\ lastAuth' = [NoAuth EXCEPT !.frame = authMsg.kind]
    /\ UNCHANGED <<variant, clients, onlineUsers, send, closed, unregs, panicked,
                   mode, enableFakeAuth, now, failures, lastFailure, reply>>
    /\ LET a == authenticate(authMsg, resp)
       IN  IF IsHandshake(authMsg) /\ a.err = ErrNil
           THEN /\ Fresh(teamID, a.teamID) /\ Fresh(userID, a.userID)
                /\ teamID' = [teamID EXCEPT ![c] = a.teamID]
                /\ userID' = [userID EXCEPT ![c] = a.userID]
                /\ email' = [email EXCEPT ![c] = a.email]
                /\ isAuthenticated' = [isAuthenticated EXCEPT ![c] = TRUE]
           ELSE UNCHANGED <<teamID, userID, email, isAuthenticated>>

\* handleWebSocket from the upgrade to the end of client.authenticate: the
\* first frame must be a handshake of type "auth"; an authentication error is
\* reported to the peer in an auth_error frame; every failure closes the
\* connection
HandleWebSocket(c, authMsg, resp) ==
    /\ ~panicked
    /\ UNCHANGED serverVars
    /\ variant \in LockedVariants
    /\ phase[c] = "connecting"
    /\ \A d \in Clients : d < c => phase[d] # "connecting"
    /\ getTotalClientCount < MaxClientsPerTeam * 100
    /\ last' = NoResult
    /\ UNCHANGED <<variant, clients, onlineUsers, send, closed, unregs, panicked,
                   mode, enableFakeAuth, now>>
    /\ LET a == authenticate(authMsg, resp)
       IN  IF ~IsHandshake(authMsg)
           THEN /\ phase' = [phase EXCEPT ![c] = "closed"]
                /\ lastAuth' = [NoAuth EXCEPT !.frame = authMsg.kind]
                /\ UNCHANGED <<teamID, userID, email, isAuthenticated, reply,
                               failures, lastFailure>>
           ELSE /\ a.err = ErrNil => Fresh(teamID, a.teamID) /\ Fresh(userID, a.userID)
                /\ failures' = a.failures
                /\ lastFailure' = a.lastFailure
                /\ lastAuth' = [frame |-> authMsg.kind,
                                token |-> authMsg.Token, err |-> a.err,
                                invoked |-> a.invoked, probe |-> a.probe,
                                resp |-> IF a.invoked THEN resp ELSE NoResponse]
                /\ IF a.err = ErrNil
                   THEN /\ teamID' = [teamID EXCEPT ![c] = a.teamID]
                        /\ userID' = [userID EXCEPT ![c] = a.userID]
                        /\ email' = [email EXCEPT ![c] = a.email]
                        /\ isAuthenticated' = [isAuthenticated EXCEPT ![c] = TRUE]
                        /\ phase' = [phase EXCEPT ![c] = "verified"]
                        /\ UNCHANGED reply
                   ELSE /\ reply' = [reply EXCEPT ![c] =
                                       [type |-> "auth_error", message |-> a.err]]
                        /\ phase' = [phase EXCEPT ![c] = "closed"]
                        /\ UNCHANGED <<teamID, userID, email, isAuthenticated>>

\* a handler without the team limit
CheckCapacityNoLimit(c) ==
    /\ ~panicked
    /\ UNCHANGED serverVars
    /\ variant \in LockedVariants
    /\ phase[c] = "verified"
    /\ phase' = [phase EXCEPT ![c] = "authenticated"]
    /\ last' = NoResult
    /\ UNCHANGED <<variant, clients, onlineUsers, send, closed, teamID, userID,
                   unregs, panicked, email, isAuthenticated, authVars>>

\* handleWebSocket, the team limit: a Client whose team is full is sent an
\* auth_error frame and closed; otherwise the handler goes on to
\* `hub.register <- client`
CheckCapacity(c) ==
    /\ ~panicked
    /\ UNCHANGED serverVars
    /\ variant \in LockedVariants
    /\ phase[c] = "verified"
    /\ IF canAddClient(teamID[c])
       THEN /\ phase' = [phase EXCEPT ![c] = "authenticated"]
            /\ UNCHANGED reply
       ELSE /\ phase' = [phase EXCEPT ![c] = "closed"]
            /\ reply' = [reply EXCEPT ![c] =
                           [type |-> "auth_error", message |-> ErrTeamLimit]]
    /\ last' = NoResult
    /\ UNCHANGED <<variant, clients, onlineUsers, send, closed, teamID, userID,
                   unregs, panicked, email, isAuthenticated, mode, enableFakeAuth,
                   failures, lastFailure, now, lastAuth>>

\* handleWebSocket after `hub.register <- client`: the success frame
AuthSuccess(c) ==
    /\ ~panicked
    /\ UNCHANGED serverVars
    /\ variant \in LockedVariants
    /\ phase[c] = "active"
    /\ reply[c] = NoReply
    /\ reply' = [reply EXCEPT ![c] =
                   [type |-> "authSuccess", message |-> "Successfully authenticated"]]
    /\ last' = NoResult
    /\ UNCHANGED <<variant, clients, onlineUsers, send, closed, teamID, userID,
                   phase, unregs, panicked, email, isAuthenticated, mode,
                   enableFakeAuth, failures, lastFailure, now, lastAuth>>

\* The Client of a connection that was closed during the handshake, before any
\* identity was written on it, is garbage: its slot stands for the Client of
\* the next connection the server accepts
NewConnection(c) ==
    /\ ~panicked
    /\ UNCHANGED serverVars
    /\ phase[c] = "closed"
    /\ teamID[c] = NoID
    /\ phase' = [phase EXCEPT ![c] = "connecting"]
    /\ reply' = [reply EXCEPT ![c] = NoReply]
    /\ last' = NoResult
    /\ UNCHANGED <<variant, clients, onlineUsers, send, closed, teamID, userID,
                   unregs, panicked, email, isAuthenticated, mode, enableFakeAuth,
                   failures, lastFailure, now, lastAuth>>

\* time passes
Tick ==
    /\ ~panicked
    /\ UNCHANGED serverVars
    /\ now < MaxTime
    /\ now' = now + 1
    /\ UNCHANGED <<variant, clients, onlineUsers, send, closed, teamID, userID,
                   phase, unregs, panicked, last, email, isAuthenticated, mode,
                   enableFakeAuth, failures, lastFailure, lastAuth, reply>>

\* ------------------------------------------------------------ POST /send
\* a validation that lets a broadcast name a target user
RejectedLenient(req) ==
    \/ req.MessageType = ""
    \/ ~req.Broadcast /\ (req.TargetTeamID = NoID \/ req.TargetUserID = NoID)

\* handleSendMessage's validation of a decoded request: whether it is answered
\* 400 Bad Request
Rejected(req) ==
    \/ req.MessageType = ""
    \/ IF req.Broadcast
       THEN req.TargetUserID # NoID
       ELSE req.TargetTeamID = NoID \/ req.TargetUserID = NoID

\* a dispatch that sends every broadcast to broadcastToTeam
RouterCallTeamOnly(req) ==
    IF req.Broadcast
    THEN [op |-> "broadcastToTeam", team |-> req.TargetTeamID, user |-> NoID]
    ELSE [op |-> "sendToUser", team |-> req.TargetTeamID, user |-> req.TargetUserID]

\* handleSendMessage's "delivery method": the router operation it calls and
\* the arguments it passes
RouterCall(req) ==
    IF req.Broadcast
    THEN IF req.TargetTeamID # NoID
         THEN [op |-> "broadcastToTeam", team |-> req.TargetTeamID, user |-> NoID]
         ELSE [op |-> "broadcastToAllTeams", team |-> NoID, user |-> NoID]
    ELSE [op |-> "sendToUser", team |-> req.TargetTeamID, user |-> req.TargetUserID]

\* the Clients the called router operation offers the payload to
RouterTargets(call) ==
    CASE call.op = "sendToUser" -> SendToUserTarget(call.team, call.user)
      [] call.op = "broadcastToTeam" -> TeamClients(call.team)
      [] OTHER -> AllClients

\* a response that counts the targets, whether or not they took the payload
SendResponseTargets(req, call, tg) ==
    [status |-> 200, success |-> tg # {}, delivered |-> Cardinality(tg),
     call |-> call, req |-> req]

\* the JSON answer of an accepted request: the broadcasts return their count
\* and success is `delivered > 0`; sendToUser returns success and delivered
\* is 1 if it is true
SendResponse(req, call, tg) ==
    IF call.op = "sendToUser"
    THEN [status |-> 200, success |-> Accepting(tg) # {},
          delivered |-> IF Accepting(tg) # {} THEN 1 ELSE 0,
          call |-> call, req |-> req]
    ELSE [status |-> 200, success |-> Cardinality(Accepting(tg)) > 0,
          delivered |-> Cardinality(Accepting(tg)), call |-> call, req |-> req]

\* handleSendMessage (the handler with global broadcasts) on a request whose
\* body decoded into req, with the router call it makes
HandleSendMessage(req) ==
    /\ ~panicked /\ variant \in LockedVariants
    /\ UNCHANGED <<authVars, email, isAuthenticated, running, pumpVars, raceVars>>
    /\ IF Rejected(req)
       THEN /\ response' = [status |-> 400, success |-> FALSE, delivered |-> 0,
                            call |-> NoCall, req |-> req]
            /\ last' = Result("handleSendMessage", FALSE, 0)
            /\ UNCHANGED <<variant, clients, onlineUsers, send, closed, teamID,
                           userID, phase, unregs, panicked>>
       ELSE LET call == RouterCall(req)
                tg == RouterTargets(call)
                r == SendResponse(req, call, tg)
            IN  /\ Ready(tg)
                /\ IF \E c \in tg : SelectCase(c) = "panic"
                   THEN Panic(call.op) /\ response' = NoSendResponse
                   ELSE /\ send' = Offer(send, tg, Payload(req.Body))
                        /\ response' = r
                        /\ last' = Result("handleSendMessage", r.success, r.delivered)
                        /\ UNCHANGED <<variant, clients, onlineUsers, closed, teamID,
                                       userID, phase, unregs, panicked>>

\* ------------------------------------------------------------ the pumps
\* everything but the pumps' own variables and the queues
hubVars == <<variant, clients, onlineUsers, closed, teamID, userID, phase,
             unregs, panicked, authVars, email, isAuthenticated, response,
             running, raceVars>>

\* c.conn.SetReadDeadline(time.Now().Add(AppConfig.WebSocket.PongWait))
ReadDeadline(t) == t + PongWait

\* handleWebSocket after the success frame: `go client.writePump()` and
\* `go client.readPump()`; readPump arms the read deadline before its loop
StartPumps(c) ==
    /\ ~panicked /\ phase[c] = "active"
    /\ rp[c] = "none" /\ wp[c] = "none"
    /\ rp' = [rp EXCEPT ![c] = "reading"]
    /\ wp' = [wp EXCEPT ![c] = "selecting"]
    /\ deadline' = [deadline EXCEPT ![c] = ReadDeadline(now)]
    /\ writer' = [writer EXCEPT ![c] = "handler"]
    /\ last' = NoResult
    /\ UNCHANGED <<hubVars, send, conn, batch, wire>>

\* why c.conn.ReadMessage() returns an error: the peer closed or the network
\* failed, the connection was closed on this side, the read deadline passed
ReadErrors == {"peer", "closed", "timeout"}

\* readPump: ReadMessage returns an error and the loop is left; the deferred
\* function then waits on `c.hub.unregister <- c`
ReadMessageFails(c, why) ==
    /\ ~panicked /\ rp[c] = "reading"
    /\ why = "closed" => conn[c] = "closed"
    /\ why = "timeout" => now >= deadline[c]
    /\ rp' = [rp EXCEPT ![c] = "exiting"]
    /\ last' = NoResult
    /\ UNCHANGED <<hubVars, send, conn, wp, batch, wire, deadline, writer>>

\* the pong handler: a pong read before the deadline re-arms it
Pong(c) ==
    /\ ~panicked /\ rp[c] = "reading"
    /\ conn[c] = "open"
    /\ now < deadline[c]
    /\ deadline' = [deadline EXCEPT ![c] = ReadDeadline(now)]
    /\ last' = NoResult
    /\ UNCHANGED <<hubVars, send, conn, rp, wp, batch, wire, writer>>

\* frames a peer sends to an active Client: a private message for (team,
\* user), a user message for a team, a handshake the provider accepts or
\* refuses, anything else
InboundFrames ==
    [type : {"privateMessage"}, team : Teams, user : Users]
      \cup [type : {"userMessage"}, team : Teams, user : {NoID}]
      \cup [type : {"auth", "auth refused"}, team : Teams, user : Users]
      \cup [type : {"unknown"}, team : {NoID}, user : {NoID}]

\* the router call readPump makes for a frame (presence variant)
FrameTargets(f) ==
    CASE f.type = "privateMessage" -> SendToUserTarget(f.team, f.user)
      [] f.type = "userMessage" -> TeamClients(f.team)
      [] OTHER -> {}

\* readPump, one iteration of the loop on a frame read before the deadline.
\* The presence variant routes private and user messages; the lock variant
\* ignores every frame; the readPump of models.go authenticates again on a
\* handshake and answers on the connection itself
ReadFrame(c, f) ==
    /\ ~panicked /\ rp[c] = "reading"
    /\ conn[c] = "open"
    /\ now < deadline[c]
    /\ UNCHANGED <<variant, clients, onlineUsers, closed, phase, unregs, authVars,
                   response, running, raceVars, conn, wp, batch, wire, deadline>>
    /\ CASE variant = "presence" ->
              LET tg == FrameTargets(f)
              IN  /\ Ready(tg)
                  /\ IF \E d \in tg : SelectCase(d) = "panic"
                     THEN /\ panicked' = TRUE
                          /\ last' = Result("readPump", FALSE, 0)
                          /\ UNCHANGED send
                     ELSE /\ send' = Offer(send, tg, Payload(1))
                          /\ last' = NoResult
                          /\ UNCHANGED panicked
                  /\ UNCHANGED <<teamID, userID, email, isAuthenticated, rp, writer>>
         [] variant = "evicting" /\ f.type = "auth" ->
              /\ Fresh(teamID, f.team) /\ Fresh(userID, f.user)
              /\ teamID' = [teamID EXCEPT ![c] = f.team]
              /\ userID' = [userID EXCEPT ![c] = f.user]
              /\ email' = [email EXCEPT ![c] = ProviderEmail(f.user)]
              /\ isAuthenticated' = [isAuthenticated EXCEPT ![c] = TRUE]
              /\ writer' = [writer EXCEPT ![c] = "readPump"]
              /\ last' = NoResult
              /\ UNCHANGED <<send, panicked, rp>>
         [] variant = "evicting" /\ f.type = "auth refused" ->
              /\ writer' = [writer EXCEPT ![c] = "readPump"]
              /\ rp' = [rp EXCEPT ![c] = "exiting"]
              /\ last' = NoResult
              /\ UNCHANGED <<send, panicked, teamID, userID, email, isAuthenticated>>
         [] OTHER ->
              /\ last' = NoResult
              /\ UNCHANGED <<send, panicked, teamID, userID, email, isAuthenticated,
                             rp, writer>>

\* readPump, `case "updateDisplayName"`: the name is stored under h.mu.Lock,
\* then broadcastOnlineUsersToTeam(c.teamID) collects the roster and takes
\* `clients := h.clients[teamID]` under h.mu.RLock, releases the lock and
\* returns if the roster is empty.  What follows runs without the lock
UpdateDisplayName(c) ==
    /\ ~panicked /\ rp[c] = "reading"
    /\ variant = "presence"
    /\ conn[c] = "open"
    /\ now < deadline[c]
    /\ LET t == teamID[c]
           users == IF t \in DOMAIN onlineUsers THEN onlineUsers[t] ELSE {}
       IN  IF users = {}
           THEN UNCHANGED <<rp, ranging>>
           ELSE /\ rp' = [rp EXCEPT ![c] = "ranging"]
                /\ ranging' = [ranging EXCEPT ![c] =
                                 [todo |-> TeamClients(t), cur |-> NoID]]
    /\ last' = NoResult
    /\ UNCHANGED <<variant, clients, onlineUsers, send, closed, teamID, userID,
                   phase, unregs, panicked, authVars, email, isAuthenticated,
                   response, running, handoff, cbMu, cbpc,
                   conn, wp, batch, wire, deadline, writer>>

\* entries the `for _, client := range clients` of Client c can still
\* produce: those of the map it took that were not reached and not deleted
\* (an entry inserted during the loop may be skipped, and is here)
RangeCandidates(c) == ranging[c].todo \cap TeamClients(teamID[c])

\* broadcastOnlineUsersToTeam, the range clause: the next entry, or the end
\* of the loop and back to ReadMessage
RangeNext(c) ==
    /\ ~panicked /\ rp[c] = "ranging"
    /\ IF RangeCandidates(c) = {}
       THEN /\ rp' = [rp EXCEPT ![c] = "reading"]
            /\ ranging' = [ranging EXCEPT ![c] = NotRanging]
       ELSE \E d \in RangeCandidates(c) :
              /\ rp' = [rp EXCEPT ![c] = "sending"]
              /\ ranging' = [ranging EXCEPT ![c] =
                               [todo |-> ranging[c].todo \ {d}, cur |-> d]]
    /\ last' = NoResult
    /\ UNCHANGED <<variant, clients, onlineUsers, send, closed, teamID, userID,
                   phase, unregs, panicked, authVars, email, isAuthenticated,
                   response, running, handoff, cbMu, cbpc,
                   conn, wp, batch, wire, deadline, writer>>

\* broadcastOnlineUsersToTeam, the loop body:
\* `select { case client.send <- messageBytes: default: }`
RangeSend(c) ==
    /\ ~panicked /\ rp[c] = "sending"
    /\ LET d == ranging[c].cur
       IN  IF SelectCase(d) = "panic"
           THEN /\ panicked' = TRUE
                /\ last' = Result("broadcastOnlineUsersToTeam", FALSE, 0)
                /\ UNCHANGED <<send, rp, ranging>>
           ELSE /\ send' = Offer(send, {d}, OnlineUsersMessage(teamID[c]))
                /\ rp' = [rp EXCEPT ![c] = "ranging"]
                /\ ranging' = [ranging EXCEPT ![c].cur = NoID]
                /\ last' = NoResult
                /\ UNCHANGED panicked
    /\ UNCHANGED <<variant, clients, onlineUsers, closed, teamID, userID,
                   phase, unregs, authVars, email, isAuthenticated,
                   response, running, handoff, cbMu, cbpc,
                   conn, wp, batch, wire, deadline, writer>>

\* unregister requests with both pumps sending one when they end
UnregisterRequestsBothPumps(c) ==
    (IF rp[c] \in {"exiting", "done"} THEN 1 ELSE 0)
      + (IF wp[c] = "done" THEN 1 ELSE 0)

\* unregister requests the goroutines of Client c have sent on h.unregister:
\* readPump's deferred function sends one, writePump's sends none
UnregisterRequests(c) == IF rp[c] \in {"exiting", "done"} THEN 1 ELSE 0

\* Hub.run receives a request a pump is blocked on and runs its unregister
\* case
HubUnregister(c) ==
    /\ unregs[c] < UnregisterRequests(c)
    /\ HandleUnregister(c) \/ HandleUnregisterPresence(c)

\* readPump's deferred function after the Hub took the request: c.conn.Close()
ReadPumpClose(c) ==
    /\ ~panicked /\ rp[c] = "exiting"
    /\ unregs[c] >= 1
    /\ rp' = [rp EXCEPT ![c] = "done"]
    /\ conn' = [conn EXCEPT ![c] = "closed"]
    /\ last' = NoResult
    /\ UNCHANGED <<hubVars, send, wp, batch, wire, deadline, writer>>

\* a writePump that writes what it finds queued before the payload it
\* received
Flushed(first, queued) == queued \o first

\* a writePump that writes the payload it received a second time
FlushedAgain(first, queued) == first \o first \o queued

\* the payloads of one websocket message: the one received from c.send, then
\* the len(c.send) queued behind it, in the order they are received
FlushedInOrder(first, queued) == first \o queued

\* a writePump that goes back to its select after the close frame
OnClosedQueueContinue == "selecting"

\* writePump on `!ok`: c.conn.WriteMessage(websocket.CloseMessage, ...) and
\* return
OnClosedQueue == "done"

\* writePump, `case message, ok := <-c.send` up to w.Write(message).  On a
\* closed and drained queue it writes a close frame and returns; on a write
\* error (err, or the connection is closed) it returns; returning runs the
\* deferred c.conn.Close()
WritePumpReceive(c, err) ==
    /\ ~panicked /\ wp[c] = "selecting"
    /\ send[c] # <<>> \/ closed[c]
    /\ writer' = [writer EXCEPT ![c] = "writePump"]
    /\ last' = NoResult
    /\ UNCHANGED <<hubVars, rp, wire, deadline>>
    /\ IF send[c] = <<>>
       THEN /\ wp' = [wp EXCEPT ![c] = OnClosedQueue]
            /\ conn' = [conn EXCEPT ![c] = "closed"]
            /\ UNCHANGED <<send, batch>>
       ELSE /\ send' = [send EXCEPT ![c] = Tail(@)]
            /\ IF err \/ conn[c] = "closed"
               THEN /\ wp' = [wp EXCEPT ![c] = "done"]
                    /\ conn' = [conn EXCEPT ![c] = "closed"]
                    /\ UNCHANGED batch
               ELSE /\ wp' = [wp EXCEPT ![c] = "writing"]
                    /\ batch' = [batch EXCEPT ![c] = <<Head(send[c])>>]
                    /\ UNCHANGED conn

\* writePump, from `n := len(c.send)` to w.Close(): the queued payloads join
\* the writer and the websocket message is sent
WritePumpFlush(c, err) ==
    /\ ~panicked /\ wp[c] = "writing"
    /\ Len(wire[c]) < MaxWire
    /\ send' = [send EXCEPT ![c] = <<>>]
    /\ batch' = [batch EXCEPT ![c] = <<>>]
    /\ last' = NoResult
    /\ UNCHANGED <<hubVars, rp, deadline, writer>>
    /\ IF err \/ conn[c] = "closed"
       THEN /\ wp' = [wp EXCEPT ![c] = "done"]
            /\ conn' = [conn EXCEPT ![c] = "closed"]
            /\ UNCHANGED wire
       ELSE /\ wp' = [wp EXCEPT ![c] = "selecting"]
            /\ wire' = [wire EXCEPT ![c] = Append(@, FlushedInOrder(batch[c], send[c]))]
            /\ UNCHANGED conn

\* writePump, `case <-ticker.C`: a ping; a failed write ends the pump
WritePumpPing(c, err) ==
    /\ ~panicked /\ wp[c] = "selecting"
    /\ writer' = [writer EXCEPT ![c] = "writePump"]
    /\ last' = NoResult
    /\ UNCHANGED <<hubVars, send, rp, batch, wire, deadline>>
    /\ IF err \/ conn[c] = "closed"
       THEN /\ wp' = [wp EXCEPT ![c] = "done"]
            /\ conn' = [conn EXCEPT ![c] = "closed"]
       ELSE UNCHANGED <<wp, conn>>

\* ------------------------------------------------- CircuitBreaker.mu
\* what CircuitBreaker.Call leaves alone
beyondBreaker == <<variant, clients, onlineUsers, send, closed, teamID, userID,
                   phase, unregs, panicked, email, isAuthenticated, mode,
                   enableFakeAuth, now, lastAuth, reply, response, running,
                   pumpVars, handoff, ranging>>

\* errors the guarded function fn can return
FnErrors == {BackendError(resp) : resp \in Responses}

\* a Call that unlocks cb.mu before it invokes fn
LockReleasedForFn(g) == NoID

\* `cb.mu.Lock(); defer cb.mu.Unlock()`: the holder of cb.mu while fn runs is
\* still the caller
LockHeldForFn(g) == g

\* the handler of Client g calls backendCircuitBreaker.Call and blocks on
\* cb.mu.Lock()
CbCall(g) ==
    /\ ~panicked /\ cbpc[g] = "idle"
    /\ cbpc' = [cbpc EXCEPT ![g] = "waiting"]
    /\ last' = NoResult
    /\ UNCHANGED <<beyondBreaker, failures, lastFailure, cbMu>>

\* cb.mu.Lock() returns once the mutex is free
CbLock(g) ==
    /\ ~panicked /\ cbpc[g] = "waiting"
    /\ cbMu = NoID
    /\ cbMu' = g
    /\ cbpc' = [cbpc EXCEPT ![g] = "locked"]
    /\ last' = NoResult
    /\ UNCHANGED <<beyondBreaker, failures, lastFailure>>

\* Call from the open check to the invocation of fn: an open circuit returns
\* the error (the deferred Unlock runs); otherwise a count at the threshold is
\* reset and fn is invoked
CbCheck(g) ==
    /\ ~panicked /\ cbpc[g] = "locked"
    /\ last' = NoResult
    /\ UNCHANGED <<beyondBreaker, lastFailure>>
    /\ IF IsOpen
       THEN /\ cbMu' = NoID
            /\ cbpc' = [cbpc EXCEPT ![g] = "idle"]
            /\ UNCHANGED failures
       ELSE /\ cbMu' = LockHeldForFn(g)
            /\ cbpc' = [cbpc EXCEPT ![g] = "fn"]
            /\ failures' = IF failures >= Threshold THEN 0 ELSE failures

\* fn returns err: the counter update, the return and the deferred Unlock
CbReturn(g, err) ==
    /\ ~panicked /\ cbpc[g] = "fn"
    /\ last' = NoResult
    /\ UNCHANGED beyondBreaker
    /\ cbMu' = IF cbMu = g THEN NoID ELSE cbMu
    /\ cbpc' = [cbpc EXCEPT ![g] = "idle"]
    /\ IF err # ErrNil
       THEN /\ failures' = failures + 1
            /\ lastFailure' = now
       ELSE /\ failures' = 0
            /\ UNCHANGED lastFailure

\* ------------------------------------------------- the register channel
\* Hub.run is inside its register case for some Client
HubRegistering == \E d \in Clients : handoff[d] = "received" /\ phase[d] = "authenticated"

\* `hub.register <- client` in the handler meets `case client := <-h.register`
\* in Hub.run: the channel has no buffer, so the send returns as soon as
\* Hub.run, back at its select, has received the Client
HubReceive(c) ==
    /\ ~panicked /\ phase[c] = "authenticated"
    /\ handoff[c] = "none"
    /\ ~HubRegistering
    /\ handoff' = [handoff EXCEPT ![c] = "received"]
    /\ last' = NoResult
    /\ UNCHANGED <<variant, clients, onlineUsers, send, closed, teamID, userID,
                   phase, unregs, panicked, authVars, email, isAuthenticated,
                   response, running, pumpVars, cbMu, cbpc, ranging>>

\* Hub.run, the body of the register case for the Client it received
HubInsert(c) ==
    /\ handoff[c] = "received"
    /\ Register(c) \/ RegisterPresence(c)

\* the handler after its send on h.register returned: the success frame
WriteAuthSuccess(c) ==
    /\ ~panicked /\ handoff[c] = "received"
    /\ reply[c] = NoReply
    /\ reply' = [reply EXCEPT ![c] =
                   [type |-> "authSuccess", message |-> "Successfully authenticated"]]
    /\ last' = NoResult
    /\ UNCHANGED <<variant, clients, onlineUsers, send, closed, teamID, userID,
                   phase, unregs, panicked, email, isAuthenticated, mode,
                   enableFakeAuth, failures, lastFailure, now, lastAuth, serverVars>>

\* ------------------------------------------------------------ h.mu
\* a Hub method or Hub.run case: the lock on h.mu it takes and whether its
\* body only reads h.clients / h.onlineUsers or also inserts, deletes or
\* closes a queue
HubMethod(name, lock, access) == [name |-> name, lock |-> lock, access |-> access]

\* the routing and diagnostic methods of the locked variants
LockedReaders ==
    {HubMethod(n, "RLock", "read") :
        n \in {"canAddClient", "getTotalClientCount", "healthCheck",
               "sendToUser", "broadcastToTeam", "broadcastToAllTeams"}}

\* what the Hub.run goroutine executes, per variant
RunCases ==
    CASE variant = "presence" ->
            {HubMethod("register", "Lock", "write"),
             HubMethod("unregister", "Lock", "write"),
             HubMethod("broadcast", "RLock", "write"),
             HubMethod("broadcastUserJoined", "RLock", "read"),
             HubMethod("broadcastUserLeft", "RLock", "read"),
             HubMethod("sendOnlineUsersToClient", "RLock", "read")}
      [] variant = "lock" ->
            {HubMethod("register", "Lock", "write"),
             HubMethod("unregister", "Lock", "write")}
      [] OTHER ->
            {HubMethod("register", "none", "write"),
             HubMethod("unregister", "none", "write")}

\* what an HTTP handler or a readPump can call, per variant
CallerMethods ==
    CASE variant = "presence" ->
            LockedReaders \cup
              {HubMethod("removeClient", "Lock", "write"),
               HubMethod("updateDisplayName", "Lock", "write"),
               HubMethod("sendOnlineUsersToClient", "RLock", "read"),
               HubMethod("broadcastOnlineUsersToTeam", "RLock", "read"),
               HubMethod("broadcastOnlineUsersToTeam loop", "none", "read")}
      [] variant = "lock" ->
            LockedReaders \cup {HubMethod("removeClient", "Lock", "write")}
      [] OTHER ->
            {HubMethod("sendToUser", "none", "write"),
             HubMethod("broadcastToTeam", "none", "write")}

MethodsOf(g) == IF g = "run" THEN RunCases ELSE CallerMethods

\* sync.RWMutex: Lock waits for every holder, RLock for a writer
MayEnter(g, lock) ==
    CASE lock = "Lock" -> \A h \in Goroutines \ {g} : running[h].lock = "none"
      [] lock = "RLock" -> \A h \in Goroutines \ {g} : running[h].lock # "Lock"
      [] OTHER -> TRUE

\* goroutine g gets past the lock of method o (if it takes one) and is in
\* its body
Enter(g, o) ==
    /\ ~panicked /\ running[g] = Idle
    /\ o \in MethodsOf(g)
    /\ MayEnter(g, o.lock)
    /\ running' = [running EXCEPT ![g] = o]
    /\ UNCHANGED <<variant, clients, onlineUsers, send, closed, teamID, userID,
                   phase, unregs, panicked, last, authVars, email,
                   isAuthenticated, response, pumpVars, raceVars>>

\* goroutine g leaves the method it is in, releasing its lock
Return(g) ==
    /\ ~panicked /\ running[g] # Idle
    /\ running' = [running EXCEPT ![g] = Idle]
    /\ UNCHANGED <<variant, clients, onlineUsers, send, closed, teamID, userID,
                   phase, unregs, panicked, last, authVars, email,
                   isAuthenticated, response, pumpVars, raceVars>>

\* The server: connection handlers, pumps and the REST send handler driving
\* the Hub
Lifecycle ==
    \/ \E c \in Clients, t \in Teams, u \in Users : Authenticate(c, t, u)
    \/ \E c \in Clients : Register(c)
    \/ \E c \in Clients : RegisterPresence(c)
    \/ \E c \in Clients : Unregister(c)
    \/ \E c \in Clients : UnregisterPresence(c)
    \/ \E c \in Clients : WritePump(c)

Next ==
    \/ Lifecycle
    \/ \E t \in Teams, u \in Users, m \in Messages : SendToUser(t, u, m)
    \/ \E t \in Teams, u \in Users, m \in Messages : SendToUserEvicting(t, u, m)
    \/ \E t \in Teams, m \in Messages : BroadcastToTeam(t, m)
    \/ \E t \in Teams, m \in Messages : BroadcastToTeamEvicting(t, m)
    \/ \E m \in Messages : BroadcastToAllTeams(m)

Spec == Init /\ [][Next]_vars

\* The Hub as a component: what its channels accept and its removal method
\* export, beyond what the server itself sends
NextHub ==
    \/ Lifecycle
    \/ \E c \in Clients : UnregisterAgain(c)
    \/ \E c \in Clients : UnregisterAgainPresence(c)
    \/ \E c \in Clients : RemoveClient(c)
    \/ \E m \in Messages : HubBroadcast(m)

SpecHub == Init /\ [][NextHub]_vars

\* The read-only diagnostics applied to every registry the Hub can hold
NextDiag ==
    \/ Lifecycle
    \/ \E m \in Messages : HubBroadcast(m)
    \/ \E t \in Teams : CallCanAddClient(t)
    \/ CallGetTotalClientCount
    \/ CallHealthCheck

SpecDiag == Init /\ [][NextDiag]_vars

\* the Clients whose sessions are followed through their pumps
SessionClients == 1..MaxSessions

\* One session after another: the handshake, the registration, the two pumps
\* of each Client and Hub.run serving the requests the pumps send
NextSession ==
    \/ \E c \in SessionClients, t \in Teams, u \in Users : Authenticate(c, t, u)
    \/ \E c \in SessionClients : Register(c)
    \/ \E c \in SessionClients : RegisterPresence(c)
    \/ \E c \in SessionClients : StartPumps(c)
    \/ \E c \in SessionClients, f \in InboundFrames : ReadFrame(c, f)
    \/ \E c \in SessionClients, why \in {"peer", "closed"} : ReadMessageFails(c, why)
    \/ \E c \in SessionClients : HubUnregister(c)
    \/ \E c \in SessionClients : ReadPumpClose(c)
    \/ \E c \in SessionClients, err \in BOOLEAN : WritePumpReceive(c, err)
    \/ \E c \in SessionClients, err \in BOOLEAN : WritePumpFlush(c, err)
    \/ \E c \in SessionClients, err \in BOOLEAN : WritePumpPing(c, err)

SpecSession == Init /\ [][NextSession]_vars

\* What the goroutines of Client c and Hub.run do whenever they can: a read
\* on a closed connection or past the deadline returns, Hub.run receives from
\* h.unregister, a deferred function runs to its end, writePump serves
\* c.send and its ticker
TeardownFairness(c) ==
    /\ WF_vars(ReadMessageFails(c, "closed"))
    /\ WF_vars(ReadMessageFails(c, "timeout"))
    /\ WF_vars(HubUnregister(c))
    /\ WF_vars(ReadPumpClose(c))
    /\ WF_vars(\E err \in BOOLEAN : WritePumpReceive(c, err))
    /\ WF_vars(\E err \in BOOLEAN : WritePumpFlush(c, err))
    /\ WF_vars(\E err \in BOOLEAN : WritePumpPing(c, err))

\* The sessions with goroutines that keep running
SpecTeardown ==
    Init /\ [][NextSession]_vars /\ \A c \in SessionClients : TeardownFairness(c)

\* the Clients whose pumps run against the clock
WatchedClients == 1..MaxWatched

\* The sessions against the clock: pongs re-arm the read deadline, which
\* passes when the peer stays silent
NextPong ==
    \/ \E c \in SessionClients, t \in Teams, u \in Users : Authenticate(c, t, u)
    \/ \E c \in SessionClients : Register(c)
    \/ \E c \in SessionClients : RegisterPresence(c)
    \/ \E c \in WatchedClients : StartPumps(c)
    \/ \E c \in WatchedClients, f \in InboundFrames : ReadFrame(c, f)
    \/ \E c \in WatchedClients : Pong(c)
    \/ \E c \in WatchedClients, why \in ReadErrors : ReadMessageFails(c, why)
    \/ \E c \in WatchedClients : HubUnregister(c)
    \/ \E c \in WatchedClients : ReadPumpClose(c)
    \/ \E c \in WatchedClients, err \in BOOLEAN : WritePumpReceive(c, err)
    \/ \E c \in WatchedClients, err \in BOOLEAN : WritePumpFlush(c, err)
    \/ \E c \in WatchedClients, err \in BOOLEAN : WritePumpPing(c, err)
    \/ Tick

SpecPong ==
    Init /\ [][NextPong]_vars /\ \A c \in WatchedClients : TeardownFairness(c)

\* Connections being registered while POST /send looks their users up
NextHandoff ==
    \/ \E c \in Clients, t \in Teams, u \in Users : Authenticate(c, t, u)
    \/ \E c \in Clients : HubReceive(c)
    \/ \E c \in Clients : HubInsert(c)
    \/ \E c \in Clients : WriteAuthSuccess(c)
    \/ \E t \in Teams, u \in Users, m \in Messages : SendToUser(t, u, m)
    \/ \E t \in Teams, u \in Users, m \in Messages : SendToUserEvicting(t, u, m)
    \/ \E c \in Clients : WritePump(c)

SpecHandoff == Init /\ [][NextHandoff]_vars

\* Handlers of several connections calling the circuit breaker at once,
\* with the clock
NextBreakerLock ==
    \/ \E g \in Clients : CbCall(g)
    \/ \E g \in Clients : CbLock(g)
    \/ \E g \in Clients : CbCheck(g)
    \/ \E g \in Clients, err \in FnErrors : CbReturn(g, err)
    \/ Tick

SpecBreakerLock == Init /\ [][NextBreakerLock]_vars

\* A session while POST /send fills and the router closes its queue
NextEvict ==
    \/ \E c \in SessionClients, t \in Teams, u \in Users : Authenticate(c, t, u)
    \/ \E c \in SessionClients : Register(c)
    \/ \E c \in SessionClients : RegisterPresence(c)
    \/ \E c \in WatchedClients : StartPumps(c)
    \/ \E c \in WatchedClients, f \in InboundFrames : ReadFrame(c, f)
    \/ \E c \in WatchedClients, why \in {"peer", "closed"} : ReadMessageFails(c, why)
    \/ \E c \in WatchedClients : HubUnregister(c)
    \/ \E c \in WatchedClients : ReadPumpClose(c)
    \/ \E c \in WatchedClients, err \in BOOLEAN : WritePumpReceive(c, err)
    \/ \E c \in WatchedClients, err \in BOOLEAN : WritePumpFlush(c, err)
    \/ \E c \in WatchedClients, err \in BOOLEAN : WritePumpPing(c, err)
    \/ \E t \in Teams, u \in Users, m \in Messages : SendToUser(t, u, m)
    \/ \E t \in Teams, u \in Users, m \in Messages : SendToUserEvicting(t, u, m)

SpecEvict ==
    Init /\ [][NextEvict]_vars /\ \A c \in WatchedClients : TeardownFairness(c)

\* Sessions while the router sends and broadcasts to them
NextDeliver ==
    \/ \E c \in SessionClients, t \in Teams, u \in Users : Authenticate(c, t, u)
    \/ \E c \in SessionClients : Register(c)
    \/ \E c \in SessionClients : RegisterPresence(c)
    \/ \E c \in WatchedClients : StartPumps(c)
    \/ \E c \in WatchedClients, why \in {"peer", "closed"} : ReadMessageFails(c, why)
    \/ \E c \in WatchedClients : HubUnregister(c)
    \/ \E c \in WatchedClients : ReadPumpClose(c)
    \/ \E c \in WatchedClients, err \in BOOLEAN : WritePumpReceive(c, err)
    \/ \E c \in WatchedClients, err \in BOOLEAN : WritePumpFlush(c, err)
    \/ \E t \in Teams, u \in Users, m \in Messages : SendToUser(t, u, m)
    \/ \E t \in Teams, u \in Users, m \in Messages : SendToUserEvicting(t, u, m)
    \/ \E t \in Teams, m \in Messages : BroadcastToTeam(t, m)
    \/ \E t \in Teams, m \in Messages : BroadcastToTeamEvicting(t, m)
    \/ \E m \in Messages : BroadcastToAllTeams(m)

SpecDeliver == Init /\ [][NextDeliver]_vars

InitRoster == Init /\ variant = "presence"

\* Sessions of the presence Hub whose peers rename themselves and leave
NextRoster ==
    \/ \E c \in SessionClients, t \in Teams, u \in Users : Authenticate(c, t, u)
    \/ \E c \in SessionClients : RegisterPresence(c)
    \/ \E c \in SessionClients : StartPumps(c)
    \/ \E c \in SessionClients : UpdateDisplayName(c)
    \/ \E c \in SessionClients : RangeNext(c)
    \/ \E c \in SessionClients : RangeSend(c)
    \/ \E c \in SessionClients, why \in {"peer", "closed"} : ReadMessageFails(c, why)
    \/ \E c \in SessionClients : HubUnregister(c)
    \/ \E c \in SessionClients : ReadPumpClose(c)
    \/ \E c \in WatchedClients, err \in BOOLEAN : WritePumpReceive(c, err)
    \/ \E c \in WatchedClients, err \in BOOLEAN : WritePumpFlush(c, err)

SpecRoster == InitRoster /\ [][NextRoster]_vars

\* The handshake of the configured server (config_test.go's handleWebSocket
\* with the Hubs that have canAddClient), its circuit breaker and the clock
InitAuth ==
    /\ variant \in LockedVariants
    /\ clients = EmptyMap
    /\ onlineUsers = EmptyMap
    /\ send = [c \in Clients |-> <<>>]
    /\ closed = [c \in Clients |-> FALSE]
    /\ teamID = [c \in Clients |-> NoID]
    /\ userID = [c \in Clients |-> NoID]
    /\ phase = [c \in Clients |-> "connecting"]
    /\ unregs = [c \in Clients |-> 0]
    /\ panicked = FALSE
    /\ last = Result("init", FALSE, 0)
    /\ mode \in {"development", "production"}
    /\ enableFakeAuth \in BOOLEAN
    /\ failures = 0
    /\ lastFailure = 0
    /\ now = 0
    /\ lastAuth = NoAuth
    /\ email = [c \in Clients |-> NoEmail]
    /\ isAuthenticated = [c \in Clients |-> FALSE]
    /\ reply = [c \in Clients |-> NoReply]
    /\ response = NoSendResponse
    /\ running = [g \in Goroutines |-> Idle]
    /\ conn = [c \in Clients |-> "open"]
    /\ rp = [c \in Clients |-> "none"]
    /\ wp = [c \in Clients |-> "none"]
    /\ batch = [c \in Clients |-> <<>>]
    /\ wire = [c \in Clients |-> <<>>]
    /\ deadline = [c \in Clients |-> 0]
    /\ writer = [c \in Clients |-> "none"]
    /\ handoff = [c \in Clients |-> "none"]
    /\ ranging = [c \in Clients |-> NotRanging]
    /\ cbMu = NoID
    /\ cbpc = [c \in Clients |-> "idle"]

NextAuth ==
    \/ \E c \in Clients, authMsg \in FirstFrames, resp \in Responses :
          HandleWebSocket(c, authMsg, resp)
    \/ \E c \in Clients : CheckCapacity(c)
    \/ \E c \in Clients : Register(c)
    \/ \E c \in Clients : RegisterPresence(c)
    \/ \E c \in Clients : AuthSuccess(c)
    \/ \E t \in Teams, u \in Users, m \in Messages : SendToUser(t, u, m)

SpecAuth == InitAuth /\ [][NextAuth]_vars

\* Authentication over any number of connections, with the clock: what the
\* circuit breaker goes through
NextBreaker ==
    \/ \E c \in Clients, authMsg \in FirstFrames, resp \in Responses :
          HandleWebSocket(c, authMsg, resp)
    \/ \E c \in Clients : NewConnection(c)
    \/ Tick

SpecBreaker == Init /\ [][NextBreaker]_vars

\* POST /send against the Hubs that have broadcastToAllTeams, while
\* connections join and the write pumps drain the queues
InitSend == Init /\ variant \in LockedVariants

NextSend ==
    \/ \E c \in Clients, t \in Teams, u \in Users : Authenticate(c, t, u)
    \/ \E c \in Clients : Register(c)
    \/ \E c \in Clients : RegisterPresence(c)
    \/ \E c \in Clients : WritePump(c)
    \/ \E req \in MessageRequests : HandleSendMessage(req)

SpecSend == InitSend /\ [][NextSend]_vars

\* The goroutines of the server inside the Hub's methods
NextLock ==
    \/ \E g \in Goroutines, o \in RunCases \cup CallerMethods : Enter(g, o)
    \/ \E g \in Goroutines : Return(g)

SpecLock == Init /\ [][NextLock]_vars

\* ================================================================== claims
\* Views of the registry written against the state, independent of the
\* helpers the actions use
Members(t) == {c \in Clients : \E u \in Users : HasUser(t, u) /\ clients[t][u] = c}

Registered == {c \in Clients : \E t \in Teams : c \in Members(t)}

HasRoom(c) == Len(send[c]) < SendChannelBuffer

\* No registered Client has a closed queue, so no routing call dies of a send
\* on a closed channel
NoClosedRegistered == \A c \in Registered : ~closed[c]

\* C1: when a register replaces the Client stored under a (team, user) key by a
\* different Client, the replaced Client's outbound queue is closed by that
\* same step, so no superseded Client keeps an open queue.
C1_SupersedeClosesPrevious ==
    [][\A t \in Teams, u \in Users :
          (HasUser(t, u) /\ t \in DOMAIN clients' /\ u \in DOMAIN clients'[t]
             /\ clients'[t][u] # clients[t][u])
          => closed'[clients[t][u]]]_vars

\* C2: an unregister of Client c leaves every registry entry that holds a
\* Client other than c in place.
C2_StaleUnregisterKeepsSuccessor ==
    [][\A c \in Clients :
          (Unregister(c) \/ UnregisterPresence(c))
          => \A t \in Teams, u \in Users :
                (HasUser(t, u) /\ clients[t][u] # c)
                => (t \in DOMAIN clients' /\ u \in DOMAIN clients'[t]
                      /\ clients'[t][u] = clients[t][u])]_vars

\* C3: a team key is present in clients exactly when the team has a member,
\* and the health snapshot counts only such teams.
C3_TeamKeyIffMember ==
    /\ \A t \in Teams : HasTeam(t) <=> Members(t) # {}
    /\ healthCheck.total_teams = Cardinality({t \in Teams : Members(t) # {}})

\* The routing calls of the running variant can complete in the current state
C4_CallsComplete ==
    ~panicked =>
      /\ variant \in LockedVariants =>
           /\ \A t \in Teams, u \in Users, m \in Messages :
                 ENABLED (SendToUser(t, u, m) /\ ~panicked')
           /\ \A t \in Teams, m \in Messages :
                 ENABLED (BroadcastToTeam(t, m) /\ ~panicked')
           /\ \A m \in Messages : ENABLED (BroadcastToAllTeams(m) /\ ~panicked')
      /\ variant = "evicting" =>
           /\ \A t \in Teams, u \in Users, m \in Messages :
                 ENABLED (SendToUserEvicting(t, u, m) /\ ~panicked')
           /\ \A t \in Teams, m \in Messages :
                 ENABLED (BroadcastToTeamEvicting(t, m) /\ ~panicked')

\* A broadcast step enqueues onto every member whose queue has room
C4_RoomImpliesDelivery ==
    /\ \A t \in Teams, m \in Messages :
          (BroadcastToTeam(t, m) \/ BroadcastToTeamEvicting(t, m))
          => \A c \in Members(t) :
                HasRoom(c) => send'[c] = Append(send[c], Payload(m))
    /\ \A m \in Messages :
          BroadcastToAllTeams(m)
          => \A c \in Registered :
                HasRoom(c) => send'[c] = Append(send[c], Payload(m))

\* C4: sendToUser, broadcastToTeam and broadcastToAll can always run to
\* completion (they are enabled, and return without a panic) whatever the fill
\* state of any queue, and a broadcast enqueues onto every member whose queue
\* has room even when other members' queues are full.
C4_NonBlockingDelivery == [][C4_CallsComplete /\ C4_RoomImpliesDelivery]_vars

\* C4 witness: a team broadcast has delivered to one member while another
\* member of the same team, whose queue was full, is still registered
C4_Witness ==
    /\ last.op = "broadcastToTeam"
    /\ last.count = 1
    /\ \E t \in Teams : \E c, d \in Members(t) :
          /\ c # d
          /\ send[c] = <<Payload(1)>>
          /\ Len(send[d]) = SendChannelBuffer
          /\ send[d][1].type # "message"

\* C5: sendToUser returns true exactly when a Client is registered under
\* (team, user) and this call appended the payload to that Client's queue; it
\* returns false when the team or the user is not registered; the queue of
\* every other Client is left as it was.
C5_SendToUserResult ==
    [][\A t \in Teams, u \in Users, m \in Messages :
          (SendToUser(t, u, m) \/ SendToUserEvicting(t, u, m))
          => /\ last'.ok <=>
                   (HasUser(t, u)
                      /\ send'[clients[t][u]] = Append(send[clients[t][u]], Payload(m)))
             /\ ~HasUser(t, u) => ~last'.ok
             /\ \A d \in Clients :
                   (~HasUser(t, u) \/ d # clients[t][u]) => send'[d] = send[d]]_vars

\* C5 witness: a sendToUser returned true, its payload is the only one queued
\* for the target, and another registered Client's queue is empty
C5_Witness ==
    /\ last.op = "sendToUser"
    /\ last.ok
    /\ \E c, d \in Registered :
          c # d /\ send[c] = <<Payload(1)>> /\ send[d] = <<>>

\* C6: a sendToUser aimed at a registered Client whose queue is full returns
\* false and changes neither the registry, nor which queues are closed, nor
\* any queue's contents.
C6_FullQueueSendLeavesRegistry ==
    [][\A t \in Teams, u \in Users, m \in Messages :
          ((SendToUser(t, u, m) \/ SendToUserEvicting(t, u, m))
             /\ HasUser(t, u) /\ ~HasRoom(clients[t][u]))
          => (~last'.ok /\ clients' = clients /\ closed' = closed
                /\ send' = send)]_vars

\* The Clients whose queue a step changed
Enqueued == {c \in Clients : send'[c] # send[c]}

\* C7: broadcastToTeam enqueues the payload only onto queues of Clients
\* registered under that team and returns exactly the number of queues it
\* enqueued onto (the member count when every member has room, 0 for a team
\* without members); broadcastToAllTeams does the same over all registered
\* Clients; no Client outside the target set receives the payload.
C7_BroadcastCountsTargets ==
    [][/\ \A t \in Teams, m \in Messages :
             (BroadcastToTeam(t, m) \/ BroadcastToTeamEvicting(t, m))
             => /\ Enqueued \subseteq Members(t)
                /\ \A c \in Enqueued : send'[c] = Append(send[c], Payload(m))
                /\ last'.count = Cardinality(Enqueued)
                /\ (\A c \in Members(t) : HasRoom(c))
                      => last'.count = Cardinality(Members(t))
                /\ ~HasTeam(t) => last'.count = 0
       /\ \A m \in Messages :
             BroadcastToAllTeams(m)
             => /\ Enqueued \subseteq Registered
                /\ \A c \in Enqueued : send'[c] = Append(send[c], Payload(m))
                /\ last'.count = Cardinality(Enqueued)
                /\ (\A c \in Registered : HasRoom(c))
                      => last'.count = Cardinality(Registered)]_vars

\* C7 witness: a team broadcast returned 2, both members hold the payload, and
\* a Client registered under another team has nothing queued
C7_Witness ==
    /\ last.op = "broadcastToTeam"
    /\ last.count = 2
    /\ \E t \in Teams :
          /\ Cardinality(Members(t)) = 2
          /\ \A c \in Members(t) : send[c] = <<Payload(1)>>
          /\ \E d \in Registered \ Members(t) : send[d] = <<>>

\* C8: a broadcast to a team or to all teams changes neither the registry nor
\* which queues are closed.
C8_BroadcastKeepsMembership ==
    [][\A m \in Messages :
          ((\E t \in Teams : BroadcastToTeam(t, m) \/ BroadcastToTeamEvicting(t, m))
             \/ BroadcastToAllTeams(m))
          => (clients' = clients /\ closed' = closed)]_vars

\* C9: a second unregister of the same Client removes no registry entry,
\* closes no queue and does not fail.
C9_UnregisterIdempotent ==
    [][\A c \in Clients :
          (UnregisterAgain(c) \/ UnregisterAgainPresence(c))
          => (clients' = clients /\ closed' = closed /\ ~panicked')]_vars

\* C10: canAddClient returns true exactly when the number of Clients
\* registered under the team is strictly below MaxClientsPerTeam: true for a
\* team without a registry entry, false for a team standing at the cap.
C10_CanAddClientBelowCap ==
    [][\A t \in Teams :
          CallCanAddClient(t)
          => /\ last'.ok <=> Cardinality(Members(t)) < MaxClientsPerTeam
             /\ ~HasTeam(t) => last'.ok
             /\ Cardinality(Members(t)) = MaxClientsPerTeam => ~last'.ok]_vars

\* C10 witness: canAddClient has just returned false for a team that holds
\* exactly MaxClientsPerTeam Clients
C10_Witness ==
    /\ last.op = "canAddClient"
    /\ ~last.ok
    /\ \E t \in Teams : Cardinality(Members(t)) = MaxClientsPerTeam

\* C11: a Client that authenticated but whose team is at its limit is sent an
\* auth_error frame and closed by the capacity check, which changes neither
\* the registry nor any queue; a closed Client is never in the registry.
C11_RejectedAttemptLeavesRegistry ==
    [][\A c \in Clients :
          /\ (CheckCapacity(c)
                /\ Cardinality(Members(teamID[c])) >= MaxClientsPerTeam)
             => /\ phase'[c] = "closed"
                /\ reply'[c] = [type |-> "auth_error", message |-> ErrTeamLimit]
                /\ clients' = clients
                /\ send' = send
                /\ closed' = closed
          /\ phase'[c] = "closed" => c \notin Registered']_vars

\* C11 witness: an authenticated Client was closed with the team-limit error
\* while its team holds MaxClientsPerTeam other Clients
C11_Witness ==
    \E c \in Clients :
       /\ phase[c] = "closed"
       /\ isAuthenticated[c]
       /\ reply[c].message = ErrTeamLimit
       /\ c \notin Registered
       /\ Cardinality(Members(teamID[c])) = MaxClientsPerTeam

\* A step is the handshake of Client c: handleWebSocket ran up to the end of
\* Client.authenticate
HandshakeOf(c) == phase[c] = "connecting" /\ phase'[c] \in {"verified", "closed"}

\* A handshake step that reached the circuit breaker: it carried a token
\* other than the development token
BreakerCall == (\E c \in Clients : HandshakeOf(c)) /\ lastAuth'.token = "token"

\* C12: while the circuit is open (failures >= Threshold and less than Timeout
\* since lastFailure), a call returns the breaker's own error without invoking
\* the provider request and without changing failures or lastFailure.
C12_OpenCircuitFailsFast ==
    [][(BreakerCall /\ failures >= Threshold /\ now - lastFailure < Timeout)
          => /\ lastAuth'.err = ErrBreakerOpen
             /\ ~lastAuth'.invoked
             /\ failures' = failures
             /\ lastFailure' = lastFailure
             /\ teamID' = teamID /\ userID' = userID]_vars

\* C12 witness: a call has just failed fast on an open circuit
C12_Witness ==
    /\ lastAuth.err = ErrBreakerOpen
    /\ ~lastAuth.invoked
    /\ failures = Threshold
    /\ now - lastFailure < Timeout

\* C13: whenever a call invokes the provider request and the request
\* succeeds, the call returns nil and failures is 0 afterwards.
C13_SuccessResetsFailures ==
    [][(BreakerCall /\ lastAuth'.invoked /\ lastAuth'.resp.kind = "200")
          => (lastAuth'.err = ErrNil /\ failures' = 0)]_vars

\* C13 witness: a successful call has brought failures back to 0 in the same
\* clock tick as the last failure
C13_Witness ==
    /\ lastAuth.err = ErrNil
    /\ lastAuth.invoked
    /\ failures = 0
    /\ now > 0
    /\ lastFailure = now

\* C14: whenever a call invokes the provider request and the request fails,
\* failures grows by exactly one, lastFailure becomes the current time and
\* the request's error is returned.
C14_FailureIncrements ==
    [][(BreakerCall /\ lastAuth'.invoked /\ lastAuth'.resp.kind # "200")
          => /\ failures' = failures + 1
             /\ lastFailure' = now
             /\ lastAuth'.err \notin {ErrNil, ErrBreakerOpen}]_vars

\* C15: once failures has reached Threshold and Timeout has elapsed since
\* lastFailure, the next call invokes the provider request; if the request
\* succeeds the circuit is closed with failures 0; and a call made while
\* failures is below Threshold always invokes the request.
C15_ProbeAfterCoolDown ==
    [][/\ (BreakerCall /\ failures >= Threshold /\ now - lastFailure >= Timeout)
          => /\ lastAuth'.invoked
             /\ lastAuth'.resp.kind = "200"
                   => (lastAuth'.err = ErrNil /\ failures' = 0)
       /\ (BreakerCall /\ failures < Threshold) => lastAuth'.invoked]_vars

\* C15 witness: the probe after a cool-down has just succeeded and closed the
\* circuit
C15_Witness ==
    /\ lastAuth.probe
    /\ lastAuth.invoked
    /\ lastAuth.err = ErrNil
    /\ failures = 0
    /\ now - lastFailure >= Timeout

\* C18: a 401 answer of the provider does not increase failures.
C18_InvalidTokenSparesBreaker ==
    [][(BreakerCall /\ lastAuth'.invoked /\ lastAuth'.resp.kind = "401")
          => failures' <= failures]_vars

\* C16: a handshake with the development token succeeds only when the bypass
\* is enabled (fake-auth flag set and mode development); otherwise it yields
\* the invalid-token error without a provider call, leaves failures and
\* lastFailure unchanged, and the Client is closed and never registered.
C16_DevelopmentTokenNeedsBypass ==
    [][\A c \in Clients :
          /\ (HandshakeOf(c) /\ lastAuth'.token = FakeToken)
             => /\ ~lastAuth'.invoked
                /\ failures' = failures
                /\ lastFailure' = lastFailure
                /\ IF enableFakeAuth /\ mode = "development"
                   THEN lastAuth'.err = ErrNil /\ phase'[c] = "verified"
                   ELSE /\ lastAuth'.err = ErrFakeToken
                        /\ reply'[c] = [type |-> "auth_error", message |-> ErrFakeToken]
                        /\ phase'[c] = "closed"
                        /\ ~isAuthenticated'[c]
                        /\ c \notin Registered'
          /\ (phase[c] = "closed" /\ reply[c].message = ErrFakeToken)
             => (phase'[c] = "closed" /\ c \notin Registered')]_vars

\* C16 witness: with the flag set but the mode production, a handshake with
\* the development token was refused while the breaker had counted a failure
C16_Witness ==
    /\ enableFakeAuth
    /\ mode = "production"
    /\ lastAuth.token = FakeToken
    /\ lastAuth.err = ErrFakeToken
    /\ failures = 1
    /\ \E c \in Clients :
          /\ phase[c] = "closed"
          /\ reply[c].message = ErrFakeToken
          /\ c \notin Registered

C19_AuthBeforeRouting ==
    [][\A c \in Clients :
          /\ (HandshakeOf(c) /\ (lastAuth'.frame # "auth" \/ lastAuth'.err # ErrNil))
             => /\ phase'[c] = "closed"
                /\ ~isAuthenticated'[c]
                /\ c \notin Registered'
                /\ send'[c] = <<>>
          /\ (isAuthenticated'[c] /\ ~isAuthenticated[c])
             => (HandshakeOf(c) /\ lastAuth'.frame = "auth" /\ lastAuth'.err = ErrNil)
          /\ (c \in Registered' \/ send'[c] # <<>>)
             => (isAuthenticated'[c] /\ phase'[c] = "active")
          /\ phase[c] = "closed" => phase'[c] = "closed"]_vars

\* C19 witness: a connection whose first frame was not a handshake is closed
\* and unregistered while a registered Client has a payload queued
C19_Witness ==
    /\ lastAuth.frame \in {"other", "undecodable", "none"}
    /\ \E c, d \in Clients :
          /\ phase[c] = "closed"
          /\ ~isAuthenticated[c]
          /\ reply[c] = NoReply
          /\ c \notin Registered
          /\ d \in Registered
          /\ send[d] # <<>>

\* C20: whenever the handshake closes a connection (undecodable first frame,
\* first frame of another type, authentication error, capacity error) the
\* peer has been sent an error frame; a success frame goes only to a
\* registered Client.
C20_FrameBeforeClose ==
    [][\A c \in Clients :
          /\ (HandshakeOf(c) /\ lastAuth'.frame \in {"auth", "other", "undecodable"}
                /\ phase'[c] = "closed")
             => reply'[c].type = "auth_error"
          /\ (phase[c] = "verified" /\ phase'[c] = "closed")
             => reply'[c].type = "auth_error"
          /\ reply'[c].type = "authSuccess" => c \in Registered']_vars

\* C21: the frame sent after a successful handshake has type "auth_success";
\* the frame sent after a failed authentication has type "auth_error" and the
\* connection is closed after it.
C21_ReplyFrameTypes ==
    \A c \in Clients :
       /\ reply[c].type \in {"none", "auth_success", "auth_error"}
       /\ reply[c].type = "auth_error" => phase[c] = "closed"
       /\ reply[c].type = "auth_success" => phase[c] = "active"

\* A step is a POST /send that was answered
SendAnswered == last'.op = "handleSendMessage" /\ response'.req \in MessageRequests

C26_DeliveredCountsEnqueued ==
    [][(SendAnswered /\ response'.status = 200)
        => /\ response'.delivered = Cardinality(Enqueued)
           /\ response'.success <=> response'.delivered > 0
           /\ ~response'.req.Broadcast => response'.delivered <= 1
           /\ \A c \in Enqueued :
                 send'[c] = Append(send[c], Payload(response'.req.Body))]_vars

\* C26 witness: a team broadcast reached one of the two members of the team,
\* the other one's queue being full
C26_Witness ==
    /\ response.status = 200
    /\ response.call.op = "broadcastToTeam"
    /\ response.delivered = 1
    /\ response.success
    /\ Cardinality(Members(response.call.team)) = 2

\* C27: an accepted request makes exactly one router call: broadcastToAllTeams
\* for broadcast with no target team, broadcastToTeam of the target team for
\* broadcast with one, sendToUser of (target team, target user) otherwise;
\* only Clients that call addresses receive the payload.
C27_DispatchByRequest ==
    [][(SendAnswered /\ response'.status = 200)
        => LET req == response'.req
           IN  /\ (req.Broadcast /\ req.TargetTeamID = NoID)
                  => /\ response'.call = [op |-> "broadcastToAllTeams",
                                          team |-> NoID, user |-> NoID]
                     /\ Enqueued \subseteq Registered
               /\ (req.Broadcast /\ req.TargetTeamID # NoID)
                  => /\ response'.call = [op |-> "broadcastToTeam",
                                          team |-> req.TargetTeamID, user |-> NoID]
                     /\ Enqueued \subseteq Members(req.TargetTeamID)
               /\ ~req.Broadcast
                  => /\ response'.call = [op |-> "sendToUser",
                                          team |-> req.TargetTeamID,
                                          user |-> req.TargetUserID]
                     /\ \A c \in Enqueued :
                           /\ HasUser(req.TargetTeamID, req.TargetUserID)
                           /\ clients[req.TargetTeamID][req.TargetUserID] = c]_vars

\* C27 witness: a broadcast without a target team reached Clients of two teams
C27_Witness ==
    /\ response.status = 200
    /\ response.call.op = "broadcastToAllTeams"
    /\ response.delivered >= 2
    /\ \E c, d \in Registered : teamID[c] # teamID[d]

\* C29: every insert, delete and close of a queue happens under the exclusive
\* lock, every read or iteration of the maps under at least the shared lock,
\* and no mutation is concurrent with a read or with another mutation.
C29_LockDiscipline ==
    \A g \in Goroutines :
       /\ running[g].access = "write" => running[g].lock = "Lock"
       /\ running[g].access = "read" => running[g].lock \in {"RLock", "Lock"}
       /\ running[g].access = "write"
          => \A h \in Goroutines \ {g} : running[h].access = "none"

C30_OnlyWritePumpWrites ==
    \A c \in Clients :
       wp[c] # "none" => writer[c] \in {"handler", "writePump"}

\* a session of Client c has ended: its inbound loop or its outbound loop is
\* over
Ended(c) == rp[c] \in {"exiting", "done"} \/ wp[c] = "done"

\* C23: every session that ends, for whatever reason, eventually has its
\* connection closed and its Client out of the registry (a server that
\* crashed holds neither connection nor registry).
C23_EndedSessionReleased ==
    \A c \in SessionClients :
       Ended(c) ~> (panicked \/ (conn[c] = "closed" /\ c \notin Registered))

\* the payloads of a sequence of websocket messages, in the order written
RECURSIVE Written(_)
Written(ms) == IF ms = <<>> THEN <<>> ELSE Head(ms) \o Written(Tail(ms))

\* the payloads of Client c not yet written, oldest first: the one writePump
\* holds, then the queue
Pending(c) == batch[c] \o send[c]

\* sequence p starts sequence q
StartsWith(q, p) == Len(p) <= Len(q) /\ SubSeq(q, 1, Len(p)) = p

TornDown(c) ==
    /\ rp[c] = "done"
    /\ unregs[c] = 1
    /\ c \notin Registered
    /\ conn[c] = "closed"

\* C28: a session whose read deadline has passed (no pong re-armed it for a
\* full pong window) is torn down; the deadline is armed when the inbound loop
\* starts and re-armed by each pong, always one full window ahead.
C28_SilentPeerTornDown ==
    /\ \A c \in WatchedClients :
          (rp[c] = "reading" /\ now >= deadline[c]) ~> (panicked \/ TornDown(c))
    /\ [][\A c \in Clients :
             ((rp[c] = "none" /\ rp'[c] = "reading") \/ deadline'[c] # deadline[c])
             => deadline'[c] = now + PongWait]_vars

\* C31: the teamID and userID of a Client stay what the handshake made them,
\* whatever frames follow; hence every registry entry clients[t][u] holds a
\* Client whose teamID is t and whose userID is u.
C31_IdentityImmutable ==
    [][/\ \A c \in Clients :
             phase[c] \in {"authenticated", "active"}
             => teamID'[c] = teamID[c] /\ userID'[c] = userID[c]
       /\ \A t \in Teams, u \in Users :
             HasUser(t, u)' => /\ teamID'[clients'[t][u]] = t
                              /\ userID'[clients'[t][u]] = u]_vars

\* C32: a Client for which the handler requests registration, and every
\* Client in the registry, has completed authentication (isAuthenticated with
\* a team and a user id); the request follows a successful authenticate and a
\* capacity check that passed.
C32_RegisteredAreAuthenticated ==
    [][\A c \in Clients :
          /\ (phase'[c] \in {"authenticated", "active"} \/ c \in Registered')
             => /\ isAuthenticated'[c]
                /\ teamID'[c] \in Teams /\ userID'[c] \in Users
          /\ (phase'[c] = "authenticated" /\ phase[c] # "authenticated")
             => /\ phase[c] = "verified"
                /\ isAuthenticated[c]
                /\ canAddClient(teamID[c])]_vars

\* C32 witness: a registered, authenticated Client next to a connection that
\* was closed with an auth_error frame and never registered
C32_Witness ==
    \E c, d \in Clients :
       /\ c \in Registered /\ phase[c] = "active" /\ isAuthenticated[c]
       /\ phase[d] = "closed" /\ reply[d].type = "auth_error"
       /\ ~isAuthenticated[d] /\ d \notin Registered

\* C33: a Client whose success frame has been written is in the registry
\* under its (team, user), so that a sendToUser issued after the frame finds
\* it.
C33_RegisteredBeforeSuccess ==
    \A c \in Clients :
       reply[c].type = "authSuccess"
       => HasUser(teamID[c], userID[c]) /\ clients[teamID[c]][userID[c]] = c

\* C34: calls of the circuit breaker are serialized: at most one caller is
\* between cb.mu.Lock() and the return (so at most one fn is in flight), and
\* from the open check of a call to its counter update no other call touches
\* failures or lastFailure.
C34_BreakerCallsSerialized ==
    [][/\ Cardinality({g \in Clients : cbpc'[g] \in {"locked", "fn"}}) <= 1
       /\ \A g \in Clients :
             (cbpc[g] = "fn" /\ cbpc'[g] = "fn")
             => failures' = failures /\ lastFailure' = lastFailure]_vars

\* C34 witness: fn of one caller is in flight after an earlier failure while
\* the two other callers wait for the lock
C34_Witness ==
    \E g \in Clients :
       /\ cbpc[g] = "fn" /\ cbMu = g
       /\ failures = 1
       /\ \A h \in Clients \ {g} : cbpc[h] = "waiting"

C36_QueueClosedOnce ==
    [][~(/\ panicked' /\ last'.op = "unregister"
         /\ \E c \in Clients :
               /\ unregs[c] < UnregisterRequests(c)
               /\ phase[c] = "active"
               /\ KeyPresent(c) /\ closed[c])]_vars

\* C38: no team ever has more registered Clients than MaxClientsPerTeam, also
\* when several connections for the team pass the capacity check before any
\* of them is registered.
C38_TeamWithinCap ==
    \A t \in Teams : Cardinality(Members(t)) <= MaxClientsPerTeam

\* C37: no step enqueues onto a closed outbound queue: a queue that grows
\* in a step was open before it, and no select of a router call, of a
\* presence or roster notice or of a roster reply is taken on a closed queue
\* (Go panics there).
C37_NoEnqueueOnClosed ==
    [][/\ \A c \in Clients : Len(send'[c]) > Len(send[c]) => ~closed[c]
       /\ ~(/\ panicked'
            /\ last'.op \in {"sendToUser", "broadcastToTeam", "broadcastToAllTeams",
                              "readPump", "broadcastOnlineUsersToTeam"})]_vars

\* payloads written to the connection of Client c so far
WrittenCount(c) == Len(Written(wire[c]))

\* C39: delivery is at most once.  A Session is stored under at most one key
\* of the registry, and a step (one send or broadcast call) adds at most one
\* payload to the queue of a Session; a step of writePump writes no more
\* payloads than it takes from the pending ones of the Session (the one it
\* holds and the queue), whether it writes one payload or a batch and whether
\* or not the queue was closed meanwhile, and what it wrote is pending no
\* longer.
C39_AtMostOnce ==
    [][/\ \A t1 \in DOMAIN clients', t2 \in DOMAIN clients' :
             \A u1 \in DOMAIN clients'[t1], u2 \in DOMAIN clients'[t2] :
                clients'[t1][u1] = clients'[t2][u2] => t1 = t2 /\ u1 = u2
       /\ \A c \in Clients :
             /\ Len(send'[c]) <= Len(send[c]) + 1
             /\ WrittenCount(c)' >= WrittenCount(c)
             /\ WrittenCount(c)' > WrittenCount(c)
                  => /\ WrittenCount(c)' - WrittenCount(c) = Len(Pending(c))
                     /\ Pending(c)' = <<>>
             /\ Len(Pending(c)') > Len(Pending(c))
                  => /\ Len(Pending(c)') = Len(Pending(c)) + 1
                     /\ WrittenCount(c)' = WrittenCount(c)]_vars

\* C39 witness: the queue of a Session was closed, nothing of it is pending
\* any more, and its connection carries one websocket message with a single
\* payload and one with a batch of two
C39_Witness ==
    \E c \in Clients :
       /\ closed[c] /\ Pending(c) = <<>>
       /\ Len(wire[c]) = 2
       /\ \E i \in 1..2 : Len(wire[c][i]) = 2
       /\ \E i \in 1..2 : Len(wire[c][i]) = 1
====
